---- MODULE Spec2Model ----
(***************************************************************************)
(* A model of nuketown-daemon's orchestration layer.                       *)
(*                                                                         *)
(*  - Daemon (daemon.py): the phase, the `current` slot, the FIFO queue    *)
(*    and the _process_task workers, driven by the socket dispatcher, the  *)
(*    XMPP message callback, the clauding evaluator and shutdown.          *)
(*  - ApprovalManager (xmpp/approval.py): the pending table of futures,    *)
(*    request() and handle_response().                                     *)
(*                                                                         *)
(* The program runs on one asyncio event loop: a handler runs atomically   *)
(* from one await that suspends to the next, so each action below is one   *)
(* such segment.                                                           *)
(***************************************************************************)
EXTENDS Integers, Sequences, FiniteSets, TLC

\* ------------------------------------------------------------------ bounds

\* Number of task submissions that are accepted or queued in one run.
MaxSubmits == 3

\* Number of ApprovalManager.request() calls made in one run.
MaxCalls == 2

\* Number of request lines a client writes on one connection.
MaxLines == 3

\* Number of times MailWatcher.run sleeps before it reconnects.
MaxReconnects == 8

\* The largest UID a message of the mailbox gets.
MaxUid == 3

\* Number of _reconnect loops the chat client starts in one run.
MaxLoops == 2

\* The longest detail text a presence update is given.
MaxDetail == 135

\* Number of Authentication-Results headers of a message, and of the
\* results one header names.
MaxHeaders == 2
MaxParts == 2

VARIABLES
    \* DaemonState (daemon.py:42-46)
    state,          \* State enum value: "idle", "working", "blocked"
    current,        \* <<>> for None, <<task>> for a TaskRequest
    queue,          \* sequence of TaskRequest
    \* Daemon
    workers,        \* every asyncio task made of _process_task, in creation order
    xmpp,           \* whether _xmpp_client / _presence are set (XMPP connected in run())
    connected,      \* the chat client's _connected event
    presence,       \* the last presence published, <<>> when none
    outbox,         \* the completion summaries sent through the XMPP client,
                    \* in send order: <<address, task id>>
    lifecycle,      \* "running", "stopping" (inside _shutdown), "stopped"
    \* observations
    nsub,           \* number of TaskRequest objects made so far
    started,        \* ids of the tasks in the order they became `current`
    ret             \* the step taken last: for a request handler its request,
                    \* its response and what it sent, for a worker how it ended

daemonVars == <<state, current, queue, workers, xmpp, connected, presence, outbox,
                lifecycle, nsub, started, ret>>

VARIABLES
    \* ApprovalManager (xmpp/approval.py)
    pending,        \* self._pending: correlation id -> the call whose future it holds
    calls,          \* every request() call, in call order, with its future
    runtime,        \* which asyncio.wait_for the interpreter has
    ignored         \* why handle_response last returned early: "unknown",
                    \* "resolved", or "none" when it never did

approvalVars == <<pending, calls, runtime, ignored>>

VARIABLES
    \* one connection served by SocketServer._handle_client (socket_server.py)
    inbuf,          \* the lines the client wrote that readline() has not returned yet
    eof,            \* whether the client closed its end after them
    nread,          \* number of lines readline() was asked for and found
    outbuf,         \* the response lines written, each with the number of its request line
    conn,           \* "open" or "closed" (writer.close() ran)
    raised          \* the exception that left _handle_client, "none" when none did

socketVars == <<inbuf, eof, nread, outbuf, conn, raised>>

VARIABLES
    \* MailWatcher (mail.py)
    mailpc,         \* where run() is: "created" (its task has not begun),
                    \* "connecting", "idle_start", "idling", "sleeping", "done"
    stopping,       \* self._stopping
    delay,          \* the local `delay` of run()
    last_seen,      \* the local `last_seen` of _connect_and_idle: the cursor
    mbox,           \* the UIDs of the messages in the server's mailbox
    \* observations
    nsleep,         \* number of reconnect sleeps begun
    established,    \* whether the connection attempt made last logged in,
                    \* selected the mailbox and entered an idle
    notified,       \* per UID, how often the callback was invoked for it on
                    \* this connection (2 stands for twice or more)
    cycle           \* the fetch cycle run last on this connection, <<>> when none

mailVars == <<mailpc, stopping, delay, last_seen, mbox, nsleep, established,
              notified, cycle>>

VARIABLES
    \* AgentXMPPClient._on_message (xmpp/client.py), an observation
    routed          \* of the message handled last: whether it carried an
                    \* approval-response element, what its body was, the
                    \* "reply_to" its body named, its sender and the exception
                    \* that left the handler; <<>> when none was handled

chatVars == <<routed>>

VARIABLES
    \* AgentXMPPClient's reconnection (xmpp/client.py:125-171)
    chat_stopping,  \* self._stopping of the chat client
    reconnects      \* every _reconnect coroutine, in the order of the
                    \* disconnects that scheduled them: where it is
                    \* ("scheduled", "sleeping", "waiting" in wait_connected,
                    \* "done"), its current_delay, the number of sleeps it
                    \* began and why it ended

reconnectVars == <<chat_stopping, reconnects>>

VARIABLES
    \* the clauding evaluation (daemon.py:168-237, clauding.py:290-333)
    eval_task,      \* self._eval_task: <<>> for None, else the event the task
                    \* evaluates, the verdicts its trust was taken from, and
                    \* where the task is ("created", "triage", "done")
    last_eval       \* ClaudingEvaluator._last_eval

claudingVars == <<eval_task, last_eval>>

VARIABLES
    \* one call of a function that keeps no state
    args,           \* the arguments it is called with, <<>> when none is called
    value           \* what it returned, <<>> before it has

callVars == <<args, value>>

VARIABLES
    \* the IMAP connection of the MailWatcher (mail.py)
    announced,      \* the UIDs whose existence the server has reported on it
    uids            \* the local `uids` of _process_new_mail while its loop
                    \* runs, <<>> otherwise

imapVars == <<announced, uids>>

vars == <<daemonVars, approvalVars, socketVars, mailVars, chatVars, reconnectVars,
          claudingVars, callVars, imapVars>>

\* What the steps of one component leave alone.
outsideDaemon == <<approvalVars, socketVars, mailVars, chatVars, reconnectVars,
                   claudingVars, callVars,
                   imapVars>>
outsideApproval == <<daemonVars, socketVars, mailVars, chatVars, reconnectVars,
                     claudingVars, callVars,
                     imapVars>>
outsideSocket == <<approvalVars, mailVars, chatVars, reconnectVars, claudingVars, callVars,
                   imapVars>>
outsideMail == <<daemonVars, approvalVars, socketVars, chatVars, reconnectVars,
                 claudingVars, callVars,
                 imapVars>>
outsideChat == <<socketVars, mailVars, reconnectVars, claudingVars, callVars,
                 imapVars>>
outsideReconnect == <<approvalVars, socketVars, mailVars, chatVars, claudingVars, callVars,
                      imapVars>>
outsideClauding == <<approvalVars, socketVars, mailVars, chatVars, reconnectVars, callVars,
                     imapVars>>
outsideCall == <<daemonVars, approvalVars, socketVars, mailVars, chatVars,
                 reconnectVars, claudingVars, imapVars>>
outsideImap == <<daemonVars, approvalVars, socketVars, chatVars, reconnectVars,
                 claudingVars, callVars>>

\* ------------------------------------------------------------- requests

\* A key that a request dict does not hold.
Absent == "<absent>"

\* dict.get(key, default)
Get(d, k, default) == IF d[k] = Absent THEN default ELSE d[k]

NoRequest ==
    [type |-> Absent, project |-> Absent, mode |-> Absent,
     source |-> Absent, reply_to |-> Absent, from |-> Absent]

\* Request objects arriving on the socket.
SocketRequests ==
    {[NoRequest EXCEPT !.type = "status"],
     [NoRequest EXCEPT !.type = "bogus"],
     [NoRequest EXCEPT !.type = "task"],
     [NoRequest EXCEPT !.type = "task", !.project = ""],
     [NoRequest EXCEPT !.type = "task", !.project = "p1"],
     [NoRequest EXCEPT !.type = "task", !.project = "p2", !.mode = "headless"]}

\* JSON objects arriving as chat message bodies.
XmppData ==
    {[NoRequest EXCEPT !.type = "status", !.from = "peer"],
     [NoRequest EXCEPT !.type = "task", !.from = "peer"],
     [NoRequest EXCEPT !.type = "task", !.project = "p1", !.from = "peer"]}

\* The request _run_evaluation builds (daemon.py:227-234).
ClaudingRequest ==
    [type |-> "task", project |-> "_clauding", mode |-> "headless",
     source |-> "clauding", reply_to |-> "josh@6bit.com", from |-> Absent]

\* TaskRequest(...) as built in _handle_task (daemon.py:293-300); id stands
\* for the object's identity.  prompt and branch only reach the external
\* collaborators and are left out.
TaskRequest(request, id) ==
    [id |-> id,
     project |-> Get(request, "project", ""),
     mode |-> Get(request, "mode", ""),
     source |-> Get(request, "source", "socket"),
     reply_to |-> Get(request, "reply_to", "")]

\* ------------------------------------------------------------- presence

\* state_to_presence's show and status prefix, with the detail it is given.
StateToPresence(s, detail) ==
    IF s = "idle" THEN [show |-> "chat", status |-> "Ready", detail |-> ""]
    ELSE IF s = "working" THEN [show |-> "dnd", status |-> "Working", detail |-> detail]
    ELSE IF s = "blocked" THEN [show |-> "away", status |-> "Waiting", detail |-> detail]
    ELSE [show |-> "", status |-> s, detail |-> ""]

\* A publisher that forgets the detail.
PublishedWithoutDetail(s, detail) ==
    IF xmpp THEN <<StateToPresence(s, "")>> ELSE presence

\* Daemon._set_state: what it leaves in presence.
Published(s, detail) ==
    IF xmpp THEN <<StateToPresence(s, detail)>> ELSE presence

\* ---------------------------------------------------------------- queue

\* A submit that never queues.
NeverWorking == FALSE

\* self._state.state == State.WORKING (daemon.py:302)
IsWorking == state = "working"

\* A queue that puts the newest task first.
QueuePrepend(q, task) == <<task>> \o q

\* self._state.queue.append(task) (daemon.py:303)
QueueAppend(q, task) == Append(q, task)

\* self._state.queue.pop(0) (daemon.py:368): the task popped, the queue left.
QueueHead(q) == Head(q)
QueueRest(q) == Tail(q)

\* A position counted from 0.
PositionFromZero(q) == Len(q) - 1

\* len(self._state.queue) (daemon.py:306)
Position(q) == Len(q)

\* A finally block that does not clear `current`.
StaleCurrent == current

\* self._state.current = None (daemon.py:365)
NoCurrent == <<>>

\* self._state.current.project if self._state.current else "" (daemon.py:307)
CurrentProject == IF current # <<>> THEN current[1].project ELSE ""

\* asyncio.create_task(self._process_task(task))
CreateWorker(task) == Append(workers, [task |-> task, pc |-> "created"])

\* A status response that also tells what the request before it was.
StatusResponseStamped ==
    [status |-> state,
     current |-> IF current # <<>> THEN current[1].project ELSE Absent,
     queue_length |-> IF queue # <<>> THEN Len(queue) ELSE 0,
     xmpp |-> IF xmpp THEN connected ELSE Absent,
     previous |-> ret.op]

\* Daemon._status_response (daemon.py:278-286).  A key the dict does not get
\* is Absent.
StatusResponse ==
    [status |-> state,
     current |-> IF current # <<>> THEN current[1].project ELSE Absent,
     queue_length |-> IF queue # <<>> THEN Len(queue) ELSE 0,
     xmpp |-> IF xmpp THEN connected ELSE Absent]

\* ------------------------------------------------------------- handlers

\* The event loop runs until run() returns.
Alive == lifecycle # "stopped"

\* What ret records of a request handler: the entry point, the request, the
\* response, and the address the handler sent a message of its own to ("" when
\* it sent none).
Returned(op, request, resp, to) == [op |-> op, req |-> request, resp |-> resp, to |-> to]

\* What ret records of a step that returns nothing.
Event(op) == [op |-> op]

\* A _handle_task that does not look whether the request names a project.
HandleTaskUnchecked(request, op, to) ==
    LET task == TaskRequest(request, nsub + 1)
    IN  IF IsWorking
        THEN /\ queue' = QueueAppend(queue, task)
             /\ ret' = Returned(op, request,
                             [status |-> "queued",
                              position |-> Position(queue'),
                              current |-> CurrentProject], to)
             /\ nsub' = nsub + 1
             /\ UNCHANGED <<state, current, workers, presence, started>>
        ELSE /\ state' = "working"
             /\ presence' = Published("working", task.project)
             /\ current' = <<task>>
             /\ workers' = CreateWorker(task)
             /\ ret' = Returned(op, request,
                             [status |-> "accepted", project |-> task.project], to)
             /\ nsub' = nsub + 1
             /\ started' = Append(started, task.id)
             /\ UNCHANGED queue

\* Daemon._handle_task (daemon.py:288-314); op names the caller.
HandleTask(request, op, to) ==
    LET project == Get(request, "project", "")
        task == TaskRequest(request, nsub + 1)
    IN  IF project = ""
        THEN /\ ret' = Returned(op, request, [error |-> "missing 'project' field"], to)
             /\ UNCHANGED <<state, current, queue, workers, presence, nsub, started>>
        ELSE IF IsWorking
        THEN /\ queue' = QueueAppend(queue, task)
             /\ ret' = Returned(op, request,
                             [status |-> "queued",
                              position |-> Position(queue'),
                              current |-> CurrentProject], to)
             /\ nsub' = nsub + 1
             /\ UNCHANGED <<state, current, workers, presence, started>>
        ELSE /\ state' = "working"
             /\ presence' = Published("working", task.project)
             /\ current' = <<task>>
             /\ workers' = CreateWorker(task)
             /\ ret' = Returned(op, request,
                             [status |-> "accepted", project |-> task.project], to)
             /\ nsub' = nsub + 1
             /\ started' = Append(started, task.id)
             /\ UNCHANGED queue

\* The model follows a run up to MaxSubmits tasks.
CanSubmit(request) == Get(request, "project", "") = "" \/ nsub < MaxSubmits

\* Daemon._dispatch (daemon.py:266-276), called by the socket server.
Dispatch(request) ==
    /\ Alive
    /\ IF request.type = "status"
       THEN /\ ret' = Returned("status", request, StatusResponse, "")
            /\ UNCHANGED <<state, current, queue, workers, presence, nsub, started>>
       ELSE IF request.type = "task"
       THEN /\ CanSubmit(request)
            /\ HandleTask(request, "task", "")
       ELSE /\ ret' = Returned("unknown", request, [error |-> "unknown request type"], "")
            /\ UNCHANGED <<state, current, queue, workers, presence, nsub, started>>
    /\ UNCHANGED <<xmpp, connected, outbox, lifecycle>>

\* Daemon._xmpp_message (daemon.py:135-148), the chat client's message callback.
XmppMessage(data) ==
    /\ Alive
    /\ xmpp
    /\ IF data.type = "task"
       THEN LET tagged == [data EXCEPT
                    !.source = Get(data, "source", "xmpp"),
                    !.reply_to = Get(data, "reply_to", Get(data, "from", ""))]
                from_jid == Get(data, "from", "")
            IN  /\ CanSubmit(tagged)
                /\ HandleTask(tagged, "xmpp", IF xmpp THEN from_jid ELSE "")
       ELSE /\ ret' = Returned("xmpp", data, [status |-> "ignored"], "")
            /\ UNCHANGED <<state, current, queue, workers, presence, nsub, started>>
    /\ UNCHANGED <<xmpp, connected, outbox, lifecycle>>

\* Daemon._run_evaluation from a triage match on (daemon.py:213-235): the
\* notice to josh, then the action queued as a headless task.
ClaudingSubmit ==
    /\ Alive
    /\ nsub < MaxSubmits
    /\ HandleTask(ClaudingRequest, "clauding", IF xmpp THEN "josh@6bit.com" ELSE "")
    /\ UNCHANGED <<xmpp, connected, outbox, lifecycle>>

\* Daemon._select_mode (daemon.py:322-333)
SelectMode(task) ==
    IF task.mode \in {"interactive", "headless"} THEN task.mode
    ELSE IF task.source = "xmpp" THEN "headless"
    ELSE "interactive"

\* How the try block of _process_task can end (daemon.py:338-360):
\*   "ok"         the session returned a non-empty summary
\*   "ok_empty"   HeadlessSession.run returned ""
\*   "timeout"    HeadlessSession.run's overall timeout expired and it
\*                returned its timeout summary (headless.py:304-312)
\*   "bootstrap"  resolve_workspace raised BootstrapError
\*   "error"      anything else raised an Exception
\*   "cancelled"  the task was cancelled at its await (CancelledError)
Outcomes(task) ==
    {"ok", "bootstrap", "error"}
    \cup (IF SelectMode(task) = "headless" THEN {"ok_empty", "timeout"} ELSE {})

\* A worker that keeps a summary only of a session that ended well.
SummaryOfSuccess(task, outcome) ==
    IF outcome = "ok"
    THEN (IF SelectMode(task) = "headless" THEN "headless summary"
          ELSE "Interactive session launched")
    ELSE ""

\* A session whose run() lets the TimeoutError out, to the worker's
\* `except Exception`.
SummaryTimeoutRaised(task, outcome) ==
    IF outcome = "ok"
    THEN (IF SelectMode(task) = "headless" THEN "headless summary"
          ELSE "Interactive session launched")
    ELSE IF outcome = "bootstrap" THEN "Bootstrap failed"
    ELSE IF outcome \in {"error", "timeout"} THEN "Unexpected error processing task"
    ELSE ""

\* The value of `summary` when the finally block is entered.
Summary(task, outcome) ==
    IF outcome = "ok"
    THEN (IF SelectMode(task) = "headless" THEN "headless summary"
          ELSE "Interactive session launched")
    ELSE IF outcome = "timeout" THEN "Session timed out"
    ELSE IF outcome = "bootstrap" THEN "Bootstrap failed"
    ELSE IF outcome = "error" THEN "Unexpected error processing task"
    ELSE ""

\* A worker whose `except Exception` clause is missing.
WorkerResultUncaught(outcome) ==
    IF outcome = "cancelled" THEN "cancelled"
    ELSE IF outcome = "error" THEN "raised"
    ELSE "done"

\* How the asyncio task of _process_task ends: BootstrapError and Exception
\* are caught, CancelledError is not.
WorkerResult(outcome) ==
    IF outcome = "cancelled" THEN "cancelled" ELSE "done"

\* _process_task from its creation to its first await (daemon.py:335-339).
WorkerStart(w) ==
    /\ Alive
    /\ workers[w].pc = "created"
    /\ workers' = [workers EXCEPT ![w].pc = "running"]
    /\ ret' = Event("start")
    /\ UNCHANGED <<state, current, queue, xmpp, connected, presence, outbox,
                   lifecycle, nsub, started>>

\* A finally block that never looks at the queue.
NeverQueued(q) == FALSE

\* The queue is not empty (daemon.py:367).
HasQueued(q) == q # <<>>

\* _process_task from the end of its try block through its finally block
\* (daemon.py:354-373).
WorkerFinish(w, outcome) ==
    LET task == workers[w].task
        summary == Summary(task, outcome)
        ended == [workers EXCEPT ![w].pc = WorkerResult(outcome)]
    IN  /\ Alive
        /\ \/ workers[w].pc = "running" /\ outcome \in Outcomes(task)
           \/ workers[w].pc = "cancelling" /\ outcome = "cancelled"
        /\ ret' = [op |-> "finish", w |-> w, outcome |-> outcome, summary |-> summary]
        /\ outbox' = IF task.reply_to # "" /\ xmpp /\ summary # ""
                     THEN Append(outbox, <<task.reply_to, task.id>>)
                     ELSE outbox
        /\ IF HasQueued(queue)
           THEN LET next_task == QueueHead(queue)
                IN  /\ queue' = QueueRest(queue)
                    /\ state' = "working"
                    /\ presence' = Published("working", next_task.project)
                    /\ current' = <<next_task>>
                    /\ workers' = Append(ended, [task |-> next_task, pc |-> "created"])
                    /\ started' = Append(started, next_task.id)
           ELSE /\ current' = NoCurrent
                /\ state' = "idle"
                /\ presence' = Published("idle", "")
                /\ workers' = ended
                /\ UNCHANGED <<queue, started>>
        /\ UNCHANGED <<xmpp, connected, lifecycle, nsub>>

\* self._worker_task: the asyncio task created last, 0 for None.
worker_task == Len(workers)

\* Daemon._shutdown up to `await self._worker_task` (daemon.py:254-257):
\* cancel() on a task that has not run yet ends it without entering its body;
\* on a task suspended at an await it raises CancelledError there.
Shutdown ==
    /\ lifecycle = "running"
    /\ lifecycle' = "stopping"
    /\ workers' = IF worker_task = 0 THEN workers
                  ELSE IF workers[worker_task].pc = "created"
                  THEN [workers EXCEPT ![worker_task].pc = "cancelled"]
                  ELSE IF workers[worker_task].pc = "running"
                  THEN [workers EXCEPT ![worker_task].pc = "cancelling"]
                  ELSE workers
    /\ ret' = Event("shutdown")
    /\ UNCHANGED <<state, current, queue, xmpp, connected, presence, outbox, nsub,
                   started>>

\* Daemon._shutdown from the end of `await self._worker_task` on
\* (daemon.py:258-264); run() returns and the loop is closed.
ShutdownDone ==
    /\ lifecycle = "stopping"
    /\ \A w \in DOMAIN workers : workers[w].pc # "cancelling"
    /\ lifecycle' = "stopped"
    /\ ret' = Event("stopped")
    /\ UNCHANGED <<state, current, queue, workers, xmpp, connected, presence,
                   outbox, nsub, started>>

\* AgentXMPPClient._on_disconnected (xmpp/client.py:125-129) as far as the
\* daemon sees it: the `connected` property it reports in its status.
XmppDisconnected ==
    /\ Alive /\ xmpp /\ connected
    /\ connected' = FALSE
    /\ ret' = Event("disconnected")
    /\ UNCHANGED <<state, current, queue, workers, xmpp, presence, outbox,
                   lifecycle, nsub, started>>

\* self._xmpp.send_presence() (xmpp/client.py:77): the presence with no show
\* and no status.
InitialPresence == [show |-> "", status |-> "", detail |-> ""]

\* AgentXMPPClient._on_session_start (xmpp/client.py:72-92): the initial
\* presence is sent and _connected is set.
XmppSessionStart ==
    /\ Alive /\ xmpp /\ ~connected
    /\ connected' = TRUE
    /\ presence' = <<InitialPresence>>
    /\ ret' = Event("session_start")
    /\ UNCHANGED <<state, current, queue, workers, xmpp, outbox,
                   lifecycle, nsub, started>>

DaemonInit ==
    /\ state = "idle"
    /\ current = <<>>
    /\ queue = <<>>
    /\ workers = <<>>
    /\ xmpp \in BOOLEAN
    /\ connected = xmpp
    /\ presence = IF xmpp THEN <<StateToPresence("idle", "")>> ELSE <<>>
    /\ outbox = <<>>
    /\ lifecycle = "running"
    /\ nsub = 0
    /\ started = <<>>
    /\ ret = Event("init")

\* ApprovalManager.__init__ (xmpp/approval.py:32-33)
ApprovalIdle ==
    /\ pending = <<>>
    /\ calls = <<>>
    /\ ignored = "none"

\* A connection that was just accepted (socket_server.py:48-53).
SocketIdle ==
    /\ inbuf = <<>>
    /\ eof = FALSE
    /\ nread = 0
    /\ outbuf = <<>>
    /\ conn = "open"
    /\ raised = "none"

\* MailWatcher.__init__ (mail.py:152-168) and the task made of run()
\* (daemon.py:165), with nothing in the mailbox.
MailIdle ==
    /\ mailpc = "created"
    /\ stopping = FALSE
    /\ delay = 0
    /\ last_seen = 0
    /\ mbox = {}
    /\ nsleep = 0
    /\ established = FALSE
    /\ notified = [u \in 1 .. MaxUid |-> 0]
    /\ cycle = <<>>
    /\ announced = {}
    /\ uids = <<>>

\* AgentXMPPClient.__init__ (xmpp/client.py:63-65): no reconnect scheduled.
ReconnectIdle ==
    /\ chat_stopping = FALSE
    /\ reconnects = <<>>

\* Daemon.__init__ (daemon.py:67-68) and ClaudingEvaluator.__init__
\* (clauding.py:305).
ClaudingIdle ==
    /\ eval_task = <<>>
    /\ last_eval = 0

\* No function is being called.
NoCall ==
    /\ args = <<>>
    /\ value = <<>>

\* The components as they are constructed, the chat client aside.
Constructed ==
    /\ ApprovalIdle
    /\ runtime = "release"
    /\ SocketIdle
    /\ MailIdle
    /\ routed = <<>>
    /\ ReconnectIdle
    /\ ClaudingIdle

Init ==
    /\ DaemonInit
    /\ ApprovalIdle
    /\ runtime = "release"
    /\ SocketIdle
    /\ MailIdle
    /\ routed = <<>>
    /\ ReconnectIdle
    /\ ClaudingIdle
    /\ NoCall

\* Nothing in the daemon calls ApprovalManager.request(): the approval
\* variables stay as they are.  The socket connection is followed in
\* SocketSpec, the loss and the return of the chat session in SessionSpec.
Next ==
    \/ \E request \in SocketRequests : Dispatch(request) /\ UNCHANGED outsideDaemon
    \/ \E data \in XmppData : XmppMessage(data) /\ UNCHANGED outsideDaemon
    \/ ClaudingSubmit /\ UNCHANGED outsideDaemon
    \/ \E w \in DOMAIN workers : WorkerStart(w) /\ UNCHANGED outsideDaemon
    \/ \E w \in DOMAIN workers :
          \E outcome \in Outcomes(workers[w].task) \cup {"cancelled"} :
             WorkerFinish(w, outcome) /\ UNCHANGED outsideDaemon
    \/ Shutdown /\ UNCHANGED outsideDaemon
    \/ ShutdownDone /\ UNCHANGED outsideDaemon

Spec == Init /\ [][Next]_vars

\* The daemon with a chat session that is lost and comes back.
SessionNext ==
    \/ Next
    \/ XmppDisconnected /\ UNCHANGED outsideDaemon
    \/ XmppSessionStart /\ UNCHANGED outsideDaemon

SessionSpec == Init /\ [][SessionNext]_vars

\* A run in which no shutdown is requested.
RunNext ==
    \/ \E request \in SocketRequests : Dispatch(request) /\ UNCHANGED outsideDaemon
    \/ \E data \in XmppData : XmppMessage(data) /\ UNCHANGED outsideDaemon
    \/ ClaudingSubmit /\ UNCHANGED outsideDaemon
    \/ \E w \in DOMAIN workers : WorkerStart(w) /\ UNCHANGED outsideDaemon
    \/ \E w \in DOMAIN workers :
          \E outcome \in Outcomes(workers[w].task) :
             WorkerFinish(w, outcome) /\ UNCHANGED outsideDaemon

\* The event loop runs every task that was created, and every execution
\* terminates.
RunFairness ==
    /\ WF_vars(\E w \in DOMAIN workers : WorkerStart(w) /\ UNCHANGED outsideDaemon)
    /\ WF_vars(\E w \in DOMAIN workers :
                  \E outcome \in Outcomes(workers[w].task) :
                     WorkerFinish(w, outcome) /\ UNCHANGED outsideDaemon)

RunSpec == Init /\ [][RunNext]_vars /\ RunFairness

\* ------------------------------------------------------- ApprovalManager

\* Correlation ids: one more than the calls need, so that one is never used.
Ids == 1 .. (MaxCalls + 1)

\* The result texts of approval-response stanzas.
Results == {"approved", "denied", "APPROVED"}

\* asyncio.wait_for as run by the interpreter.  Up to Python 3.11 its timer
\* only wakes wait_for, which cancels the future once it runs again
\* ("release"); from Python 3.12 on the timer cancels the waiting task, which
\* cancels the future it awaits at once ("cancel").
Runtimes == {"release", "cancel"}

\* loop.create_future()
NewFuture == [st |-> "pending", result |-> "", late |-> FALSE]

\* _generate_id (xmpp/approval.py:20-22): 48 random bits, taken to be an id
\* that no call has had.  Ids are only compared for equality, so the k-th
\* call takes id k; the last id of Ids is never a call's.
GenerateId == {Len(calls) + 1}

\* A comparison that takes everything but a denial for an approval.
NotDenied(result) == result # "denied"

\* result == "approved" (xmpp/approval.py:72)
Approved(result) == result = "approved"

\* A finally block that leaves the slot in the table.
KeepPending(p, id) == p

\* self._pending.pop(request_id, None) (xmpp/approval.py:91)
PopPending(p, id) == [i \in DOMAIN p \ {id} |-> p[i]]

\* A lookup that takes any slot of the table for the one asked for.
LookupAny(p, id) == IF DOMAIN p = {} THEN 0 ELSE p[CHOOSE i \in DOMAIN p : TRUE]

\* self._pending.get(request_id) (xmpp/approval.py:102): the call whose future
\* the slot holds, 0 for None.
Lookup(p, id) == IF id \in DOMAIN p THEN p[id] ELSE 0

\* A check that never finds the future done.
NeverDone(fut) == FALSE

\* future.done() (xmpp/approval.py:109)
FutureDone(fut) == fut.st # "pending"

\* ApprovalManager.request up to its await (xmpp/approval.py:57-71): the slot
\* is registered, the request stanza sent, the call waits.
Request(id) ==
    /\ Len(calls) < MaxCalls
    /\ id \in GenerateId
    /\ calls' = Append(calls, [id |-> id, fut |-> NewFuture, wake |-> "none",
                               pc |-> "waiting", ret |-> "none"])
    /\ pending' = [i \in DOMAIN pending \cup {id} |->
                      IF i = id THEN Len(calls) + 1 ELSE pending[i]]
    /\ UNCHANGED <<runtime, ignored>>

\* ApprovalManager.handle_response (xmpp/approval.py:93-116)
HandleResponse(id, result) ==
    LET c == Lookup(pending, id)
    IN  /\ IF c = 0
           THEN /\ ignored' = "unknown"
                /\ UNCHANGED calls
           ELSE IF FutureDone(calls[c].fut)
           THEN /\ ignored' = "resolved"
                /\ UNCHANGED calls
           ELSE /\ calls' = [calls EXCEPT ![c].fut =
                               [st |-> "result", result |-> result,
                                late |-> calls[c].wake = "timeout"]]
                /\ UNCHANGED ignored
        /\ UNCHANGED <<pending, runtime>>

\* The timer of asyncio.wait_for(future, timeout=timeout) fires
\* (xmpp/approval.py:71).
TimeoutFires(c) ==
    /\ calls[c].pc = "waiting"
    /\ calls[c].wake = "none"
    /\ calls' = [calls EXCEPT
                    ![c].wake = "timeout",
                    ![c].fut.st = IF runtime = "cancel" /\ calls[c].fut.st = "pending"
                                  THEN "cancelled" ELSE @]
    /\ UNCHANGED <<pending, runtime, ignored>>

\* The task that runs request() is cancelled while it waits.
Cancel(c) ==
    /\ calls[c].pc = "waiting"
    /\ calls[c].wake # "cancel"
    /\ calls' = [calls EXCEPT
                    ![c].wake = "cancel",
                    ![c].fut.st = IF runtime = "cancel" /\ calls[c].fut.st = "pending"
                                  THEN "cancelled" ELSE @]
    /\ UNCHANGED <<pending, runtime, ignored>>

\* A wait that takes a timeout with no decision for an approval.
WaitForFailOpen(call) ==
    IF call.fut.st = "result" /\ ~Approved(call.fut.result) THEN "False" ELSE "True"

\* What `await asyncio.wait_for(future, timeout)` gives when request() runs
\* again, through `return approved` or an except clause (xmpp/approval.py:71-89):
\* "True", "False", or "CancelledError" for the exception that leaves request().
WaitFor(call) ==
    IF runtime = "cancel"
    THEN (IF call.wake = "cancel" THEN "CancelledError"
          ELSE IF call.wake = "timeout" THEN "False"
          ELSE IF Approved(call.fut.result) THEN "True" ELSE "False")
    ELSE (IF call.fut.st = "result"
          THEN (IF Approved(call.fut.result) THEN "True" ELSE "False")
          ELSE IF call.wake = "cancel" THEN "CancelledError"
          ELSE "False")

\* ApprovalManager.request from its await on (xmpp/approval.py:71-91).
Resume(c) ==
    /\ calls[c].pc = "waiting"
    /\ calls[c].wake # "none" \/ calls[c].fut.st # "pending"
    /\ calls' = [calls EXCEPT
                    ![c].pc = "ended",
                    ![c].ret = WaitFor(calls[c]),
                    ![c].fut.st = IF @ = "pending" THEN "cancelled" ELSE @]
    /\ pending' = PopPending(pending, calls[c].id)
    /\ UNCHANGED <<runtime, ignored>>

\* ApprovalManager.pending_count (xmpp/approval.py:118-121)
pending_count == Cardinality(DOMAIN pending)

ApprovalInit ==
    /\ DaemonInit
    /\ xmpp
    /\ ApprovalIdle
    /\ runtime \in Runtimes
    /\ SocketIdle
    /\ MailIdle
    /\ routed = <<>>
    /\ ReconnectIdle
    /\ ClaudingIdle
    /\ NoCall

ApprovalNext ==
    \/ \E id \in Ids : Request(id) /\ UNCHANGED outsideApproval
    \/ \E id \in Ids : \E result \in Results :
          HandleResponse(id, result) /\ UNCHANGED outsideApproval
    \/ \E c \in DOMAIN calls : TimeoutFires(c) /\ UNCHANGED outsideApproval
    \/ \E c \in DOMAIN calls : Cancel(c) /\ UNCHANGED outsideApproval
    \/ \E c \in DOMAIN calls : Resume(c) /\ UNCHANGED outsideApproval

ApprovalSpec == ApprovalInit /\ [][ApprovalNext]_vars

\* The event loop fires the timers that are due and runs the tasks that are
\* ready: while a call's timer is armed some timer fires, and while a call was
\* woken some call runs.
ApprovalFairness ==
    /\ WF_vars(\E c \in DOMAIN calls : TimeoutFires(c) /\ UNCHANGED outsideApproval)
    /\ WF_vars(\E c \in DOMAIN calls : Resume(c) /\ UNCHANGED outsideApproval)

ApprovalLiveSpec == ApprovalSpec /\ ApprovalFairness

\* ApprovalManager.request when client.send_approval_request raises
\* (xmpp/approval.py:57-68, xmpp/client.py:194-215): the slot was registered
\* before the send, the send is outside the try block, and the exception
\* leaves request().
RequestSendRaises(id) ==
    /\ Len(calls) < MaxCalls
    /\ id \in GenerateId
    /\ calls' = Append(calls, [id |-> id, fut |-> NewFuture, wake |-> "none",
                               pc |-> "raised", ret |-> "SendError"])
    /\ pending' = [i \in DOMAIN pending \cup {id} |->
                      IF i = id THEN Len(calls) + 1 ELSE pending[i]]
    /\ UNCHANGED <<runtime, ignored>>

\* Runs in which a send may fail.
SendNext ==
    \/ ApprovalNext
    \/ \E id \in Ids : RequestSendRaises(id) /\ UNCHANGED outsideApproval

SendSpec == ApprovalInit /\ [][SendNext]_vars

\* ---------------------------------------------------------- SocketServer

\* The request lines a client writes, by what the bytes before the newline
\* hold: a JSON object, a JSON value that is no object ("array"), text that is
\* no JSON ("malformed"), bytes that no unicode encoding decodes
\* ("undecodable"), a JSON number of more digits than int() converts
\* ("bigint"), and a line longer than the stream reader's limit ("overlong").
Lines ==
    {[kind |-> "object", request |-> r] : r \in SocketRequests}
      \cup {[kind |-> k, request |-> NoRequest] :
                k \in {"array", "malformed", "undecodable", "bigint", "overlong"}}

\* `await reader.readline()` (socket_server.py:55): the exception it raises,
\* "none" when it returns the line.  A line over the reader's limit raises
\* ValueError.
ReadLine(line) == IF line.kind = "overlong" THEN "ValueError" ELSE "none"

\* json.loads(line) on bytes (socket_server.py:59): the exception it raises,
\* "none" when it returns a value.  The bytes are decoded first, and a number
\* is converted by int().
JsonLoads(line) ==
    CASE line.kind = "malformed" -> "JSONDecodeError"
      [] line.kind = "undecodable" -> "UnicodeDecodeError"
      [] line.kind = "bigint" -> "ValueError"
      [] OTHER -> "none"

\* What Daemon._dispatch raises for a value json.loads returned
\* (daemon.py:268): request.get of a value that is no dict.
DispatchRaises(line) == IF line.kind = "object" THEN "none" ELSE "AttributeError"

\* `except json.JSONDecodeError` (socket_server.py:60)
ExceptJSONDecodeError(exc) == exc = "JSONDecodeError"

\* A handler with no clause for what the dispatcher raises.
ExceptNothing(exc) == FALSE

\* `except Exception` (socket_server.py:65)
ExceptException(exc) ==
    exc \in {"AttributeError", "JSONDecodeError", "UnicodeDecodeError", "ValueError"}

\* {"error": f"invalid JSON: {exc}"} (socket_server.py:61): the text is error
\* followed by detail.
InvalidJson == [error |-> "invalid JSON: ", detail |-> "Expecting value"]

\* {"error": "internal error"} (socket_server.py:67)
InternalError == [error |-> "internal error"]

\* writer.write(json.dumps(response).encode() + b"\n") (socket_server.py:69)
\* for the request line numbered n.
Written(n, response) == Append(outbuf, [req |-> n, resp |-> response])

\* The exception leaves _handle_client through its finally block
\* (socket_server.py:73-76): nothing is written, the connection is closed.
Propagates(exc) ==
    /\ raised' = exc
    /\ conn' = "closed"
    /\ UNCHANGED outbuf

\* The client writes one more line; lines may pile up unread.
ClientSend(line) ==
    /\ conn = "open"
    /\ ~eof
    /\ nread + Len(inbuf) < MaxLines
    /\ inbuf' = Append(inbuf, line)
    /\ UNCHANGED <<eof, nread, outbuf, conn, raised>>

\* The client closes its end.
ClientEof ==
    /\ conn = "open"
    /\ ~eof
    /\ eof' = TRUE
    /\ UNCHANGED <<inbuf, nread, outbuf, conn, raised>>

\* One turn of the loop of SocketServer._handle_client for a line
\* (socket_server.py:54-70).
ServeLine ==
    /\ conn = "open"
    /\ inbuf # <<>>
    /\ LET line == Head(inbuf)
           n == nread + 1
       IN  /\ inbuf' = Tail(inbuf)
           /\ nread' = n
           /\ UNCHANGED eof
           /\ IF ReadLine(line) # "none"
              THEN Propagates(ReadLine(line)) /\ UNCHANGED daemonVars
              ELSE IF JsonLoads(line) # "none"
              THEN /\ IF ExceptJSONDecodeError(JsonLoads(line))
                      THEN /\ outbuf' = Written(n, InvalidJson)
                           /\ UNCHANGED <<conn, raised>>
                      ELSE Propagates(JsonLoads(line))
                   /\ UNCHANGED daemonVars
              ELSE IF DispatchRaises(line) # "none"
              THEN /\ IF ExceptException(DispatchRaises(line))
                      THEN /\ outbuf' = Written(n, InternalError)
                           /\ UNCHANGED <<conn, raised>>
                      ELSE Propagates(DispatchRaises(line))
                   /\ UNCHANGED daemonVars
              ELSE /\ Dispatch(line.request)
                   /\ outbuf' = Written(n, ret'.resp)
                   /\ UNCHANGED <<conn, raised>>

\* readline() returns b"" at the end of the input (socket_server.py:56-57,
\* 73-76).
ServeEof ==
    /\ conn = "open"
    /\ inbuf = <<>>
    /\ eof
    /\ conn' = "closed"
    /\ UNCHANGED <<inbuf, eof, nread, outbuf, raised>>

SocketInit == Init

SocketNext ==
    \/ \E line \in Lines : ClientSend(line) /\ UNCHANGED <<daemonVars, outsideSocket>>
    \/ ClientEof /\ UNCHANGED <<daemonVars, outsideSocket>>
    \/ ServeLine /\ UNCHANGED outsideSocket
    \/ ServeEof /\ UNCHANGED <<daemonVars, outsideSocket>>

SocketSpec == SocketInit /\ [][SocketNext]_vars

\* ----------------------------------------------------------- MailWatcher

Min(a, b) == IF a <= b THEN a ELSE b

\* The largest member of a set of UIDs, 0 for the empty set.
MaxOf(S) == IF S = {} THEN 0 ELSE CHOOSE u \in S : \A v \in S : v <= u

\* A backoff that doubles without a cap.
DoubleDelay(d) == d * 2

\* delay = min(delay * 2, max_delay) (mail.py:174, 189)
NextDelay(d) == Min(d * 2, 300)

\* A loop that goes on whatever _stopping is.
LoopAnyway == TRUE

\* `while not self._stopping` (mail.py:176, 223)
NotStopping == ~stopping

\* _connect_and_idle has returned or raised (mail.py:179-188): run() ends when
\* _stopping is set and sleeps otherwise.
AttemptEnded ==
    IF ~NotStopping
    THEN /\ mailpc' = "done"
         /\ UNCHANGED nsleep
    ELSE /\ nsleep < MaxReconnects
         /\ mailpc' = "sleeping"
         /\ nsleep' = nsleep + 1

\* The idle loop of _connect_and_idle comes to its condition (mail.py:223).
IdleLoop ==
    IF NotStopping
    THEN /\ mailpc' = "idle_start"
         /\ UNCHANGED nsleep
    ELSE AttemptEnded

\* run() up to its first await (mail.py:172-178, 204-206).
RunStart ==
    /\ mailpc = "created"
    /\ stopping' = FALSE
    /\ delay' = 5
    /\ mailpc' = "connecting"
    /\ UNCHANGED <<last_seen, mbox, nsleep, established, notified, cycle>>

\* What the server and the network make of a connection attempt.
ConnectOutcomes == {"ok", "search_failed", "login_failed", "select_failed", "raises"}

\* _get_max_uid (mail.py:245-256)
GetMaxUid(outcome) == IF outcome = "search_failed" THEN 0 ELSE MaxOf(mbox)

\* _connect_and_idle from the hello to the idle loop (mail.py:206-223).
Connect(outcome) ==
    /\ mailpc = "connecting"
    /\ IF outcome \in {"ok", "search_failed"}
       THEN /\ last_seen' = GetMaxUid(outcome)
            /\ notified' = [u \in 1 .. MaxUid |-> 0]
            /\ cycle' = <<>>
            /\ IdleLoop
       ELSE /\ AttemptEnded
            /\ UNCHANGED <<last_seen, notified, cycle>>
    /\ UNCHANGED <<stopping, delay, mbox, established>>

\* `await self._client.idle_start(...)` returns or raises (mail.py:225).
IdleStarted(ok) ==
    /\ mailpc = "idle_start"
    /\ IF ok
       THEN mailpc' = "idling" /\ established' = TRUE /\ UNCHANGED nsleep
       ELSE AttemptEnded /\ UNCHANGED established
    /\ UNCHANGED <<stopping, delay, last_seen, mbox, notified, cycle>>

\* wait_server_push times out: the idle is refreshed (mail.py:228-232).
IdleRefresh ==
    /\ mailpc = "idling"
    /\ IdleLoop
    /\ UNCHANGED <<stopping, delay, last_seen, mbox, established, notified, cycle>>

\* wait_server_push or the end of the idle raises (mail.py:227-235).
IdleFails ==
    /\ mailpc = "idling"
    /\ AttemptEnded
    /\ UNCHANGED <<stopping, delay, last_seen, mbox, established, notified, cycle>>

\* `UID n:*` names at least the last message of the mailbox, also when n is
\* beyond it; this is what the server's search returns (mail.py:260).
UidSearch(n) == {u \in mbox : u >= n} \cup (IF mbox = {} THEN {} ELSE {MaxOf(mbox)})

\* uids = [u for u in raw_uids.split() if int(u) > last_seen] (mail.py:268)
NewUids == {u \in UidSearch(last_seen + 1) : u > last_seen}

\* What happens to one message of a fetch cycle (mail.py:274-280): the fetch
\* gives a notification and the callback returns ("ok"), the fetch gives None
\* ("none"), the fetch raises, or the callback raises.
UidOutcomes == {"ok", "none", "fetch_raises", "callback_raises"}

\* The orders in which the server's SEARCH response lists the UIDs S:
\* ascending or descending.
Listings(S) ==
    LET n == Cardinality(S)
        up == CHOOSE l \in [1 .. n -> S] : \A i, j \in 1 .. n : i < j => l[i] < l[j]
    IN  {up, [i \in 1 .. n |-> up[n + 1 - i]]}

\* A loop that gives up at the first message that fails: the callback is
\* invoked for the messages below it only.
InvokedBeforeFailure(out) ==
    {u \in DOMAIN out :
        /\ out[u] \in {"ok", "callback_raises"}
        /\ \A v \in DOMAIN out : v < u => out[v] \in {"ok", "none"}}

\* The messages the callback was invoked for (mail.py:276-277).
Invoked(out) == {u \in DOMAIN out : out[u] \in {"ok", "callback_raises"}}

\* The messages that reach `max_uid = max(max_uid, int(uid))` (mail.py:278).
Counted(out) == {u \in DOMAIN out : out[u] \in {"ok", "none"}}

\* `for uid in uids` (mail.py:268-277): the UIDs the callback is invoked for,
\* in the order of the listing.
Emitted(listing, out) == SelectSeq(listing, LAMBDA u : u \in Invoked(out))

\* _process_new_mail (mail.py:258-282) for the server's listing of the new
\* UIDs and the outcomes out of its messages.
ProcessNewMail(listing, out) ==
    /\ DOMAIN out = NewUids
    /\ last_seen' = MaxOf(Counted(out) \cup {last_seen})
    /\ notified' = [u \in 1 .. MaxUid |->
                      IF u \in Invoked(out) THEN Min(notified[u] + 1, 2) ELSE notified[u]]
    /\ cycle' = [before |-> last_seen, found |-> NewUids, out |-> out,
                 after |-> last_seen', order |-> Emitted(listing, out)]

\* The server pushes while the watcher idles (mail.py:227, 234-243); has_new
\* tells whether the push names EXISTS.
Push(has_new, listing, out) ==
    /\ mailpc = "idling"
    /\ IF has_new
       THEN ProcessNewMail(listing, out)
       ELSE /\ DOMAIN out = {} /\ listing = <<>>
            /\ UNCHANGED <<last_seen, notified, cycle>>
    /\ IdleLoop
    /\ UNCHANGED <<stopping, delay, mbox, established>>

\* `await asyncio.sleep(delay)` returns (mail.py:188-189, 176-178).
SleepDone ==
    /\ mailpc = "sleeping"
    /\ delay' = NextDelay(delay)
    /\ IF NotStopping
       THEN mailpc' = "connecting" /\ established' = FALSE
       ELSE mailpc' = "done" /\ UNCHANGED established
    /\ UNCHANGED <<stopping, last_seen, mbox, nsleep, notified, cycle>>

\* MailWatcher.stop (mail.py:191-200), called on a watcher whose run() has
\* begun; a task that has not begun is cancelled by the daemon and never runs
\* (daemon.py:252-259).
Stop ==
    /\ mailpc \notin {"created", "done"}
    /\ ~stopping
    /\ stopping' = TRUE
    /\ UNCHANGED <<mailpc, delay, last_seen, mbox, nsleep, established, notified, cycle>>

\* A message arrives in the mailbox; its UID is above every UID there.
MailArrives(u) ==
    /\ u > MaxOf(mbox)
    /\ mbox' = mbox \cup {u}
    /\ UNCHANGED <<mailpc, stopping, delay, last_seen, nsleep, established, notified, cycle>>

\* The outcomes a fetch cycle can have now.
CycleOutcomes == [NewUids -> UidOutcomes]

\* The supervisor on a mailbox that gets no mail.
MailNext ==
    \/ RunStart /\ UNCHANGED outsideMail
    \/ \E outcome \in ConnectOutcomes : Connect(outcome) /\ UNCHANGED outsideMail
    \/ \E ok \in BOOLEAN : IdleStarted(ok) /\ UNCHANGED outsideMail
    \/ IdleRefresh /\ UNCHANGED outsideMail
    \/ IdleFails /\ UNCHANGED outsideMail
    \/ \E has_new \in BOOLEAN : \E listing \in Listings(NewUids) :
          \E out \in CycleOutcomes :
             Push(has_new, listing, out) /\ UNCHANGED outsideMail
    \/ SleepDone /\ UNCHANGED outsideMail
    \/ Stop /\ UNCHANGED outsideMail

MailSpec == Init /\ [][MailNext]_vars

\* Every await of run() ends: the server answers or the connection fails, an
\* idle is ended by a push, its refresh timeout or an error, a sleep runs out.
MailFairness ==
    /\ WF_vars(\E outcome \in ConnectOutcomes : Connect(outcome) /\ UNCHANGED outsideMail)
    /\ WF_vars(\E ok \in BOOLEAN : IdleStarted(ok) /\ UNCHANGED outsideMail)
    /\ WF_vars((IdleRefresh \/ IdleFails) /\ UNCHANGED outsideMail)
    /\ WF_vars(SleepDone /\ UNCHANGED outsideMail)

MailLiveSpec == MailSpec /\ MailFairness

\* One connection that stays up while mail arrives.
FetchNext ==
    \/ RunStart /\ UNCHANGED outsideMail
    \/ \E outcome \in {"ok", "search_failed"} : Connect(outcome) /\ UNCHANGED outsideMail
    \/ IdleStarted(TRUE) /\ UNCHANGED outsideMail
    \/ IdleRefresh /\ UNCHANGED outsideMail
    \/ \E has_new \in BOOLEAN : \E listing \in Listings(NewUids) :
          \E out \in CycleOutcomes :
             Push(has_new, listing, out) /\ UNCHANGED outsideMail
    \/ \E u \in 1 .. MaxUid : MailArrives(u) /\ UNCHANGED outsideMail

FetchSpec == Init /\ [][FetchNext]_vars

\* The SELECT of a connection attempt reports the messages that exist
\* (mail.py:213-220).
ConnectSelected(outcome) ==
    /\ Connect(outcome)
    /\ announced' = mbox
    /\ UNCHANGED uids

\* The server pushes EXISTS into the idle for mail it has not reported yet;
\* the watcher ends the idle and _process_new_mail runs its UID search, whose
\* response lists the new UIDs (mail.py:227, 234-270).
ExistsPush(listing) ==
    /\ mailpc = "idling"
    /\ mbox # announced
    /\ announced' = mbox
    /\ IF NewUids = {}
       THEN IdleLoop /\ UNCHANGED uids
       ELSE mailpc' = "fetching" /\ uids' = listing /\ UNCHANGED nsleep
    /\ UNCHANGED <<stopping, delay, last_seen, mbox, established, notified, cycle>>

\* `for uid in uids` with every fetch and callback succeeding, and the return
\* to the idle loop (mail.py:272-282, 243, 223).
FetchUids ==
    /\ mailpc = "fetching"
    /\ LET found == {uids[i] : i \in DOMAIN uids}
           out == [u \in found |-> "ok"]
       IN  /\ last_seen' = MaxOf(Counted(out) \cup {last_seen})
           /\ notified' = [u \in 1 .. MaxUid |->
                             IF u \in Invoked(out) THEN Min(notified[u] + 1, 2)
                             ELSE notified[u]]
           /\ cycle' = [before |-> last_seen, found |-> found, out |-> out,
                        after |-> last_seen', order |-> Emitted(uids, out)]
    /\ uids' = <<>>
    /\ IdleLoop
    /\ UNCHANGED <<stopping, delay, mbox, established, announced>>

\* Mail that arrives while the server executes a command of the cycle is
\* reported with the response to that command, outside any idle.  The loop
\* reads has_new from the push of an idle only (mail.py:227, 238-241) and a
\* fetch response is read for its body parts only (mail.py:284-312).
ReportedInResponse ==
    /\ mailpc = "fetching"
    /\ mbox # announced
    /\ announced' = mbox
    /\ UNCHANGED <<mailVars, uids>>

\* One connection that stays up, with a server that reports all mail once.
ArrivalNext ==
    \/ RunStart /\ UNCHANGED outsideMail
    \/ \E outcome \in {"ok", "search_failed"} :
          ConnectSelected(outcome) /\ UNCHANGED outsideImap
    \/ IdleStarted(TRUE) /\ UNCHANGED outsideMail
    \/ IdleRefresh /\ UNCHANGED outsideMail
    \/ \E listing \in Listings(NewUids) : ExistsPush(listing) /\ UNCHANGED outsideImap
    \/ FetchUids /\ UNCHANGED outsideImap
    \/ ReportedInResponse /\ UNCHANGED outsideImap
    \/ \E u \in 1 .. MaxUid : MailArrives(u) /\ UNCHANGED outsideMail

\* Every await of the watcher ends, and the server pushes what it has to
\* report into an idle that is running.
ArrivalFairness ==
    /\ WF_vars(RunStart /\ UNCHANGED outsideMail)
    /\ WF_vars(\E outcome \in {"ok", "search_failed"} :
                  ConnectSelected(outcome) /\ UNCHANGED outsideImap)
    /\ WF_vars(IdleStarted(TRUE) /\ UNCHANGED outsideMail)
    /\ SF_vars(\E listing \in Listings(NewUids) : ExistsPush(listing) /\ UNCHANGED outsideImap)
    /\ WF_vars(FetchUids /\ UNCHANGED outsideImap)

ArrivalSpec == Init /\ [][ArrivalNext]_vars /\ ArrivalFairness

\* ------------------------------------------------------- AgentXMPPClient

\* The approval-response element of a message stanza: none, or one with a
\* correlation id and a result text.
Elements == {<<>>} \cup {<<[id |-> i, result |-> r]>> : i \in Ids, r \in Results}

\* JSON objects arriving as chat message bodies: those of XmppData, a task
\* that names no "from", and one that names its own "reply_to".
ChatData ==
    XmppData
      \cup {[NoRequest EXCEPT !.type = "task", !.project = "p1"],
            [NoRequest EXCEPT !.type = "task", !.reply_to = "boss@host"]}

\* The body of a message stanza: empty, text that is no JSON, a JSON array,
\* an integer literal of more than 4300 digits, or a JSON object.
Bodies ==
    {[kind |-> k, data |-> NoRequest] : k \in {"empty", "text", "list", "bigint"}}
      \cup {[kind |-> "object", data |-> d] : d \in ChatData}

\* msg["from"], the JID the stanza came from.
Senders == {"alice@host"}

Messages == [element : Elements, body : Bodies, from : Senders]

\* msg.xml.find(approval-response) is not None (xmpp/client.py:97-98)
HasApproval(msg) == msg.element # <<>>

\* A handler that goes on to the body after the approval callback.
FallsThrough(msg) == TRUE

\* `return` after the approval callback (xmpp/client.py:105): the body is
\* looked at only when there was no approval-response element.
GoesOnToBody(msg) == ~HasApproval(msg)

\* json.loads(body) (xmpp/client.py:113): the exception it raises, "none"
\* when it returns.  An integer literal beyond the interpreter's digit limit
\* raises a ValueError that is no JSONDecodeError.
BodyLoads(body) ==
    IF body.kind = "text" THEN "JSONDecodeError"
    ELSE IF body.kind = "bigint" THEN "ValueError"
    ELSE "none"

\* `except (json.JSONDecodeError, TypeError)` (xmpp/client.py:114)
ExceptDecodeOrType(exc) == exc \in {"JSONDecodeError", "TypeError"}

\* The exception that leaves _on_message: none for a message that returns at
\* the approval callback or at an empty body (xmpp/client.py:105, 109-110).
BodyRaises(msg) ==
    IF GoesOnToBody(msg) /\ msg.body.kind # "empty"
          /\ BodyLoads(msg.body) # "none" /\ ~ExceptDecodeOrType(BodyLoads(msg.body))
    THEN BodyLoads(msg.body)
    ELSE "none"

\* The body is a JSON object (xmpp/client.py:108-119).
IsTaskMessage(msg) == msg.body.kind = "object"

\* AgentXMPPClient._on_message (xmpp/client.py:94-123) with the callbacks
\* the daemon gives it (daemon.py:114-120).
OnMessage(msg) ==
    /\ Alive
    /\ xmpp
    /\ IF HasApproval(msg)
       THEN HandleResponse(msg.element[1].id, msg.element[1].result)
       ELSE UNCHANGED approvalVars
    /\ IF GoesOnToBody(msg) /\ IsTaskMessage(msg)
       THEN XmppMessage(msg.body.data)
       ELSE UNCHANGED daemonVars
    /\ routed' = [element |-> HasApproval(msg), body |-> msg.body.kind,
                  reply_to |-> msg.body.data.reply_to, from |-> msg.from,
                  raised |-> BodyRaises(msg)]

ChatInit == Init /\ xmpp

\* Messages arrive while one approval request is made and answered.
ChatNext ==
    \/ \E id \in Ids :
          calls = <<>> /\ Request(id) /\ UNCHANGED outsideApproval
    \/ \E c \in DOMAIN calls : Resume(c) /\ UNCHANGED outsideApproval
    \/ \E msg \in Messages : OnMessage(msg) /\ UNCHANGED outsideChat

ChatSpec == ChatInit /\ [][ChatNext]_vars

\* ------------------------------------------- AgentXMPPClient: reconnection

\* A reconnect loop that doubles its delay without a cap.
UncappedDelay(d) == d * 2

\* current_delay = min(current_delay * 2, max_delay) (xmpp/client.py:133, 146)
NextCurrentDelay(d) == Min(d * 2, 300)

\* A loop that connects after its sleep whatever _stopping is.
NeverBreak == FALSE

\* `if self._stopping: break` after the sleep (xmpp/client.py:139-140)
BreakAfterSleep == chat_stopping

\* asyncio.ensure_future(self._reconnect()) (xmpp/client.py:131)
NewReconnect == [pc |-> "scheduled", current_delay |-> 0, nsleep |-> 0, why |-> ""]

\* The loop has called connect() and has not ended: the connection it asked
\* for may still come up.
Attempting(l) == l.pc = "waiting" \/ (l.pc = "sleeping" /\ l.nsleep > 1)

\* The "disconnected" event (xmpp/client.py:125-131): the transport of an
\* established session, or of a connection attempt that did not get to its
\* session, is lost.
OnDisconnected ==
    /\ Alive /\ xmpp
    /\ connected \/ \E i \in DOMAIN reconnects : reconnects[i].pc = "waiting"
    /\ connected' = FALSE
    /\ ret' = Event("disconnected")
    /\ IF ~chat_stopping
       THEN /\ Len(reconnects) < MaxLoops
            /\ reconnects' = Append(reconnects, NewReconnect)
       ELSE UNCHANGED reconnects
    /\ UNCHANGED <<state, current, queue, workers, xmpp, presence, outbox,
                   lifecycle, nsub, started, chat_stopping>>

\* `while not self._stopping` (xmpp/client.py:136) at the end of an
\* iteration of loop i whose delay is now d: the next sleep begins or the
\* coroutine returns.
LoopAgain(i, d) ==
    IF chat_stopping
    THEN reconnects' = [reconnects EXCEPT ![i].pc = "done", ![i].why = "stopping",
                                          ![i].current_delay = d]
    ELSE /\ reconnects[i].nsleep < MaxReconnects
         /\ reconnects' = [reconnects EXCEPT ![i].pc = "sleeping",
                                             ![i].current_delay = d,
                                             ![i].nsleep = @ + 1]

\* The coroutine of _reconnect begins (xmpp/client.py:133-138).
ReconnectStart(i) ==
    /\ reconnects[i].pc = "scheduled"
    /\ LoopAgain(i, 5)
    /\ UNCHANGED <<daemonVars, chat_stopping>>

\* `await asyncio.sleep(current_delay)` returns (xmpp/client.py:138-143):
\* the loop breaks or calls connect() and waits for the session.
ReconnectWake(i) ==
    /\ reconnects[i].pc = "sleeping"
    /\ IF BreakAfterSleep
       THEN reconnects' = [reconnects EXCEPT ![i].pc = "done", ![i].why = "stopping"]
       ELSE reconnects' = [reconnects EXCEPT ![i].pc = "waiting"]
    /\ UNCHANGED <<daemonVars, chat_stopping>>

\* wait_connected(timeout=30) returns (xmpp/client.py:143-146, 158-165): True
\* when _connected is set, False when the 30 seconds ran out before.
WaitConnected(i) ==
    /\ reconnects[i].pc = "waiting"
    /\ IF connected
       THEN reconnects' = [reconnects EXCEPT ![i].pc = "done", ![i].why = "connected"]
       ELSE LoopAgain(i, NextCurrentDelay(reconnects[i].current_delay))
    /\ UNCHANGED <<daemonVars, chat_stopping>>

\* _on_session_start (xmpp/client.py:72-92) for a connection a reconnect loop
\* asked for.
SessionStart ==
    /\ \E i \in DOMAIN reconnects : Attempting(reconnects[i])
    /\ XmppSessionStart
    /\ UNCHANGED reconnectVars

\* AgentXMPPClient.disconnect (xmpp/client.py:167-171), called once by
\* Daemon._shutdown (daemon.py:260-261); the "disconnected" event of the
\* session it closes comes later.
Disconnect ==
    /\ Alive /\ xmpp
    /\ ~chat_stopping
    /\ chat_stopping' = TRUE
    /\ UNCHANGED <<daemonVars, reconnects>>

ReconnectInit == Init /\ xmpp

ReconnectNext ==
    \/ OnDisconnected /\ UNCHANGED outsideReconnect
    \/ \E i \in DOMAIN reconnects : ReconnectStart(i) /\ UNCHANGED outsideReconnect
    \/ \E i \in DOMAIN reconnects : ReconnectWake(i) /\ UNCHANGED outsideReconnect
    \/ \E i \in DOMAIN reconnects : WaitConnected(i) /\ UNCHANGED outsideReconnect
    \/ SessionStart /\ UNCHANGED outsideReconnect
    \/ Disconnect /\ UNCHANGED outsideReconnect

ReconnectSpec == ReconnectInit /\ [][ReconnectNext]_vars

\* ------------------------------------------------------ clauding on mail

\* The verdicts _parse_auth_results leaves in an AuthResult: "" when the
\* headers name none.
Verdicts == {"pass", "fail", ""}

\* time.monotonic() at the arrival of a notification.
Times == {100, 130, 200}

\* ClaudingEvaluator's debounce_seconds (clauding.py:300).
DebounceSeconds == 60

\* The notifications MailWatcher hands to _on_mail: the verdicts of the
\* message, which of the watchers' tags occur in its sender, subject and
\* snippet, and when it arrived.
Notifications ==
    [auth : [dkim : Verdicts, spf : Verdicts], tags : SUBSET {"invoice"},
     timestamp : Times]

\* What get_entries finds in clauding.md: no waiting entry, one without
\* tags, one with a tag.
EntryLists == {<<>>, <<[tags |-> {}]>>, <<[tags |-> {"invoice"}]>>}

\* A trust that every verdict gives.
TrustedAnyway(auth) == TRUE

\* AuthResult.trusted (mail.py:35-43)
Trusted(auth) == auth.dkim = "pass" \/ auth.spf = "pass"

\* Event(...) as _on_mail builds it (daemon.py:186-193).
MailEvent(notification) ==
    [source |-> "mail", trusted |-> Trusted(notification.auth),
     tags |-> notification.tags, timestamp |-> notification.timestamp]

\* pre_filter (clauding.py:121-165)
PreFilter(event, entries, last, debounce_seconds) ==
    /\ entries # <<>>
    /\ event.trusted
    /\ ~(last > 0 /\ event.timestamp - last < debounce_seconds)
    /\ \E i \in DOMAIN entries :
          entries[i].tags = {} \/ entries[i].tags \cap event.tags # {}

\* self._eval_task and not self._eval_task.done() (daemon.py:198)
Evaluating == eval_task # <<>> /\ eval_task.pc # "done"

\* Daemon._on_mail and _try_evaluate (daemon.py:168-204) with an evaluator
\* loaded; entries is what clauding.md holds now.
OnMail(notification, entries) ==
    /\ Alive
    /\ notification.timestamp >= last_eval
    /\ IF ~Evaluating
          /\ PreFilter(MailEvent(notification), entries, last_eval, DebounceSeconds)
       THEN eval_task' = [event |-> MailEvent(notification),
                          auth |-> notification.auth, pc |-> "created"]
       ELSE UNCHANGED eval_task
    /\ UNCHANGED <<daemonVars, last_eval>>

\* _run_evaluation up to the API call of triage (daemon.py:206-209,
\* clauding.py:321-333, 241-245): without an API key run_triage returns None
\* and the evaluation is over.
EvalStart(has_key) ==
    /\ eval_task # <<>> /\ eval_task.pc = "created"
    /\ IF has_key
       THEN /\ last_eval' = eval_task.event.timestamp
            /\ eval_task' = [eval_task EXCEPT !.pc = "triage"]
       ELSE /\ eval_task' = [eval_task EXCEPT !.pc = "done"]
            /\ UNCHANGED last_eval
    /\ UNCHANGED daemonVars

\* The API call returns (clauding.py:245-258, daemon.py:209-235): on a match
\* the action is submitted as a task.
TriageReturns(match) ==
    /\ eval_task # <<>> /\ eval_task.pc = "triage"
    /\ eval_task' = [eval_task EXCEPT !.pc = "done"]
    /\ IF match THEN ClaudingSubmit ELSE UNCHANGED daemonVars
    /\ UNCHANGED last_eval

ClaudingInit == Init

ClaudingNext ==
    \/ \E notification \in Notifications : \E entries \in EntryLists :
          OnMail(notification, entries) /\ UNCHANGED outsideClauding
    \/ \E has_key \in BOOLEAN : EvalStart(has_key) /\ UNCHANGED outsideClauding
    \/ \E match \in BOOLEAN : TriageReturns(match) /\ UNCHANGED outsideClauding

ClaudingSpec == ClaudingInit /\ [][ClaudingNext]_vars

\* ------------------------------------------------------- status text

\* A text is the sequence of its characters.  The character U+2026:
Ellipsis == "..."

\* MAX_STATUS_LENGTH (xmpp/presence.py:24)
MAX_STATUS_LENGTH == 140

WorkingText == <<"W", "o", "r", "k", "i", "n", "g">>
WaitingText == <<"W", "a", "i", "t", "i", "n", "g">>
ReadyText == <<"R", "e", "a", "d", "y">>

\* f"{word}: {suffix}"
WithDetail(word, suffix) == word \o <<":", " ">> \o suffix

\* A detail of n characters, the k-th of which is an ellipsis when there is
\* a k-th.
Detail(n, k) == [i \in 1 .. n |-> IF i = k THEN Ellipsis ELSE "x"]

\* The details a presence update is given: plain ones of every length, and
\* ones that hold an ellipsis where a long detail is cut.
Details ==
    {Detail(n, 0) : n \in 0 .. MaxDetail}
      \cup {Detail(n, 130) : n \in 130 .. MaxDetail}

\* A cut that leaves no room for the ellipsis.
TruncateLate(text, max_len) ==
    IF Len(text) <= max_len THEN text
    ELSE Append(SubSeq(text, 1, max_len), Ellipsis)

\* _truncate (xmpp/presence.py:73-77)
Truncate(text, max_len) ==
    IF Len(text) <= max_len THEN text
    ELSE Append(SubSeq(text, 1, max_len - 1), Ellipsis)

\* state_to_presence (xmpp/presence.py:45-70) with the status as a text.
StatusText(s, detail) ==
    IF s = "idle" THEN [show |-> "chat", status |-> ReadyText]
    ELSE IF s = "working"
    THEN [show |-> "dnd",
          status |-> IF detail # <<>>
                     THEN WithDetail(WorkingText,
                             Truncate(detail, MAX_STATUS_LENGTH - Len(WithDetail(WorkingText, <<>>))))
                     ELSE WorkingText]
    ELSE [show |-> "away",
          status |-> IF detail # <<>>
                     THEN WithDetail(WaitingText,
                             Truncate(detail, MAX_STATUS_LENGTH - Len(WithDetail(WaitingText, <<>>))))
                     ELSE WaitingText]

\* PresencePublisher.update (xmpp/presence.py:33-42): the show and status it
\* sends.
PresenceUpdate ==
    /\ args # <<>> /\ value = <<>>
    /\ value' = StatusText(args.state, args.detail)
    /\ UNCHANGED args

PresenceInit ==
    /\ DaemonInit /\ ~xmpp
    /\ Constructed
    /\ args \in [state : {"idle", "working", "blocked"}, detail : Details]
    /\ value = <<>>

PresenceNext == PresenceUpdate /\ UNCHANGED outsideCall

PresenceSpec == PresenceInit /\ [][PresenceNext]_vars

\* ------------------------------------------------ Authentication-Results

\* The value of a result as the header spells it; the last is empty.
RawValues == {"pass", "FAIL (bad signature)", ""}

\* One `field=value` part of a header, between two semicolons.
Parts == [field : {"dkim", "spf", "dmarc"}, raw : RawValues]

\* Sequences over S of at most n members.
SeqUpTo(S, n) == UNION {[1 .. k -> S] : k \in 0 .. n}

\* The Authentication-Results headers of a message, in their order.
HeaderLists == SeqUpTo(SeqUpTo(Parts, MaxParts), MaxHeaders)

\* part.split("=", 1)[1].split()[0].strip() of the lower-cased header
\* (mail.py:126, 132): the first word, "IndexError" when there is none.
FirstWord(raw) ==
    IF raw = "pass" THEN "pass"
    ELSE IF raw = "FAIL (bad signature)" THEN "fail"
    ELSE "IndexError"

\* The parts of header h that start with field f (mail.py:129-131).
FieldParts(h, f) == SelectSeq(h, LAMBDA part : part.field = f)

\* What one header makes of the verdict cur of field f (mail.py:128-132): a
\* header is looked at while the verdict is empty, and every part of it that
\* starts with the field assigns the verdict.
HeaderVerdict(h, f, cur) ==
    LET parts == FieldParts(h, f)
    IN  IF cur # "" \/ parts = <<>> THEN cur
        ELSE IF \E i \in DOMAIN parts : FirstWord(parts[i].raw) = "IndexError"
        THEN "IndexError"
        ELSE FirstWord(parts[Len(parts)].raw)

\* The loop over the headers (mail.py:125) for one field.
RECURSIVE Verdict(_, _, _)
Verdict(headers, f, cur) ==
    IF headers = <<>> \/ cur = "IndexError" THEN cur
    ELSE Verdict(Tail(headers), f, HeaderVerdict(Head(headers), f, cur))

\* _parse_auth_results (mail.py:105-146): the AuthResult, or the exception
\* it raises.
ParseAuthResults(headers) ==
    LET auth == [f \in {"dkim", "spf", "dmarc"} |-> Verdict(headers, f, "")]
    IN  IF \E f \in DOMAIN auth : auth[f] = "IndexError"
        THEN [raised |-> "IndexError"]
        ELSE [raised |-> "none", dkim |-> auth["dkim"], spf |-> auth["spf"],
              dmarc |-> auth["dmarc"]]

\* _fetch_notification parses the headers it fetched (mail.py:315-320).
ParseHeaders ==
    /\ args # <<>> /\ value = <<>>
    /\ value' = ParseAuthResults(args.headers)
    /\ UNCHANGED args

AuthInit ==
    /\ DaemonInit /\ ~xmpp
    /\ Constructed
    /\ args \in [headers : HeaderLists]
    /\ value = <<>>

AuthNext == ParseHeaders /\ UNCHANGED outsideCall

AuthSpec == AuthInit /\ [][AuthNext]_vars

\* ------------------------------------------------------------------ claims

\* The workers that have not ended.
ActiveWorkers ==
    {w \in DOMAIN workers : workers[w].pc \in {"created", "running", "cancelling"}}

\* The asyncio task of worker w ended in this step.
Ended(w) ==
    /\ workers[w].pc \in {"running", "cancelling"}
    /\ workers'[w].pc \notin {"created", "running", "cancelling"}

\* C1: tasks become `current` in the order of their submit calls.  Task ids
\* number the submit calls, so the ids in `started` are 1, 2, 3, ... and the
\* queue holds the ids that follow, in order.
C1_Fifo ==
    /\ \A i \in DOMAIN started : started[i] = i
    /\ \A i \in DOMAIN queue : queue[i].id = Len(started) + i

\* Three tasks from the socket, the chat and the triage evaluator have all
\* become current, the last two after waiting in the queue together.
C1_Witness ==
    /\ Len(started) = 3
    /\ Len(workers) = 3
    /\ {workers[w].task.source : w \in DOMAIN workers} = {"socket", "xmpp", "clauding"}
    /\ workers[1].pc = "done" /\ workers[2].pc = "done"
    /\ ret.op = "finish"

\* C2: at most one worker is active, and a worker is created only by a submit
\* that finds the phase not Working or by a worker that ends and pops the
\* queue head.
C2_OneWorker ==
    /\ [](Cardinality(ActiveWorkers) <= 1)
    /\ [][Len(workers') > Len(workers) =>
            /\ Len(workers') = Len(workers) + 1
            /\ \/ /\ ret'.op \in {"task", "xmpp", "clauding"}
                  /\ state # "working"
                  /\ ActiveWorkers = {}
               \/ /\ ret'.op = "finish"
                  /\ Ended(ret'.w)
                  /\ queue # <<>>
                  /\ workers'[Len(workers')].task = Head(queue)]_vars

\* A worker runs while two tasks wait, and an earlier worker has ended.
C2_Witness ==
    /\ Len(workers) = 2
    /\ workers[1].pc = "done"
    /\ workers[2].pc = "running"
    /\ Len(queue) = 1

\* C3: `current` is set if and only if the phase is Working.
C3_CurrentIffWorking == (current # <<>>) <=> (state = "working")

\* A worker has failed, the next task is current; and the other case below.
C3_Witness ==
    /\ ret.op = "finish" /\ ret.outcome = "error"
    /\ state = "working" /\ current # <<>>
    /\ Len(started) = 2

\* C4: a submit with a project is queued with its 1-based position and the
\* running project when the phase is Working, and accepted as `current`
\* otherwise.
C4_Submit ==
    [][nsub' = nsub + 1 =>
        LET project == ret'.req.project
        IN  /\ project \notin {"", Absent}
            /\ IF state = "working"
               THEN /\ Len(queue') = Len(queue) + 1
                    /\ \A i \in DOMAIN queue : queue'[i] = queue[i]
                    /\ queue'[Len(queue')].project = project
                    /\ ret'.resp = [status |-> "queued",
                                    position |-> Len(queue) + 1,
                                    current |-> current[1].project]
                    /\ UNCHANGED <<state, current>>
               ELSE /\ state' = "working"
                    /\ current'[1].project = project
                    /\ ret'.resp = [status |-> "accepted", project |-> project]
                    /\ UNCHANGED queue]_vars

\* p1 was accepted while idle, p2 submitted right after is queued at
\* position 1 with current p1.
C4_Witness ==
    /\ ret.op = "task"
    /\ ret.req.project = "p2"
    /\ ret.resp = [status |-> "queued", position |-> 1, current |-> "p1"]
    /\ nsub = 2
    /\ workers[1].pc = "created"

\* C5: a worker whose task ends with a BootstrapError or another Exception
\* raises nothing, has a summary, and then starts the queue head or goes Idle.
C5_FailureCompletes ==
    [][\A w \in DOMAIN workers :
          (Ended(w) /\ ret'.op = "finish" /\ ret'.w = w
                    /\ ret'.outcome \in {"bootstrap", "error"}) =>
             /\ workers'[w].pc = "done"
             /\ ret'.summary # ""
             /\ IF queue # <<>>
                THEN /\ current' = <<Head(queue)>>
                     /\ queue' = Tail(queue)
                     /\ state' = "working"
                     /\ Len(workers') = Len(workers) + 1
                     /\ workers'[Len(workers')] = [task |-> Head(queue), pc |-> "created"]
                ELSE /\ current' = <<>>
                     /\ state' = "idle"
                     /\ queue' = <<>>
                     /\ Len(workers') = Len(workers)]_vars

\* A worker has ended with an unexpected error and the queue head was started.
C5_Witness ==
    /\ ret.op = "finish" /\ ret.outcome = "error"
    /\ workers[ret.w].pc = "done"
    /\ Len(workers) = ret.w + 1
    /\ workers[Len(workers)].pc = "created"
    /\ queue # <<>>

\* C6: a status request leaves phase, current and queue alone, and a status
\* request that directly follows another returns the same response.
C6_Status ==
    [][ret'.op = "status" =>
          /\ UNCHANGED <<state, current, queue>>
          /\ ret.op = "status" => ret'.resp = ret.resp]_vars

\* A status response given while a worker is running and a task is queued.
C6_Witness ==
    /\ ret.op = "status"
    /\ ret.resp.status = "working" /\ ret.resp.queue_length = 1
    /\ \E w \in DOMAIN workers : workers[w].pc = "running"

\* The calls that have not returned.
Waiting == {c \in DOMAIN calls : calls[c].pc = "waiting"}

\* The slot of call c was resolved with "approved".
ResolvedApproved(c) ==
    calls[c].fut.st = "result" /\ calls[c].fut.result = "approved"

\* C7 as stated: request() returns true if and only if "approved" was
\* delivered for its id before its timeout fired.
C7_Original ==
    \A c \in DOMAIN calls :
        calls[c].ret \in {"True", "False"} =>
            (calls[c].ret = "True" <=> (ResolvedApproved(c) /\ ~calls[c].fut.late))

\* C7, amended: request() returns true only if a response with result
\* exactly "approved" resolved its slot, and does return true when that
\* happened and neither its timeout nor a cancellation fired before it ran
\* again; with "denied", any other text, or no response it never returns true.
C7_FailClosed ==
    \A c \in DOMAIN calls :
        calls[c].pc = "ended" =>
            /\ calls[c].ret \in {"True", "False", "CancelledError"}
            /\ calls[c].ret = "True" => ResolvedApproved(c)
            /\ (ResolvedApproved(c) /\ calls[c].wake = "none") => calls[c].ret = "True"
            /\ (calls[c].fut.st # "result" /\ calls[c].wake = "timeout")
                  => calls[c].ret = "False"

\* Calls have returned true on "approved", false on "denied", false on
\* another text and false on a timeout.
C7_Witness ==
    /\ Len(calls) = 2
    /\ calls[1].ret = "True" /\ ResolvedApproved(1) /\ calls[1].wake = "none"
    /\ calls[2].ret = "False" /\ calls[2].wake = "timeout" /\ calls[2].fut.st = "cancelled"

C9_NoOpResponse ==
    /\ [][\A id \in Ids : \A result \in Results :
             (HandleResponse(id, result)
                /\ (id \notin DOMAIN pending \/ calls[pending[id]].fut.st # "pending"))
             => UNCHANGED <<pending, calls>>]_vars
    /\ [][\A c \in DOMAIN calls :
             calls[c].fut.st = "result" => calls'[c].fut = calls[c].fut]_vars
    /\ [](\A c \in DOMAIN calls :
             (calls[c].pc = "ended" /\ calls[c].wake = "none") =>
                (calls[c].ret = "True" <=> calls[c].fut.result = "approved"))

\* A response for an already resolved slot was ignored and the only call
\* returned true.
C9_Witness ==
    /\ Len(calls) = 1
    /\ ignored = "resolved"
    /\ calls[1].ret = "True"

\* C10: a response for one id changes no other call's future and no slot, and
\* every waiting call keeps its own slot.
C10_Independent ==
    /\ [][\A id \in Ids : \A result \in Results :
             HandleResponse(id, result) =>
                /\ pending' = pending
                /\ \A c \in DOMAIN calls : calls[c].id # id => calls'[c] = calls[c]]_vars
    /\ [](\A c \in Waiting : calls[c].id \in DOMAIN pending /\ pending[calls[c].id] = c)

\* The second call is resolved while the first, made before it, still waits
\* unresolved with its slot.
C10_Witness ==
    /\ Len(calls) = 2
    /\ calls[2].fut.st = "result"
    /\ calls[1].pc = "waiting" /\ calls[1].fut.st = "pending" /\ calls[1].wake = "none"
    /\ 1 \in DOMAIN pending

\* C11: a request() that got no response returns false once its timeout has
\* fired; no call ends while it has neither a response nor a timeout nor a
\* cancellation, and no call waits forever: again and again no call is waiting.
C11_TimeoutReturnsFalse ==
    /\ [](\A c \in DOMAIN calls :
             (calls[c].pc = "ended" /\ calls[c].wake = "timeout"
                /\ calls[c].fut.st # "result") => calls[c].ret = "False")
    /\ [][\A c \in DOMAIN calls :
             (calls[c].pc = "waiting" /\ calls'[c].pc = "ended") =>
                (calls[c].fut.st = "result" \/ calls[c].wake # "none")]_vars
    /\ []<>(Waiting = {})

\* The only call got no response at all and returned false after its timeout.
C11_Witness ==
    /\ Len(calls) = 1
    /\ ignored = "none"
    /\ calls[1].pc = "ended" /\ calls[1].wake = "timeout"
    /\ calls[1].fut.st = "cancelled" /\ calls[1].ret = "False"

\* C12 as stated: every request line read from a connection has exactly one
\* response line, and the responses are in the order of the request lines.
C12_Original ==
    /\ Len(outbuf) = nread
    /\ \A i \in DOMAIN outbuf : outbuf[i].req = i

\* C13 as stated: every line that is not valid JSON is answered with an error
\* whose text begins "invalid JSON:" and the connection stays open.
C13_Original ==
    [][(nread' = nread + 1 /\ Head(inbuf).kind \in {"malformed", "undecodable"}) =>
          /\ Len(outbuf') = Len(outbuf) + 1
          /\ outbuf'[Len(outbuf')].req = nread'
          /\ outbuf'[Len(outbuf')].resp.error = "invalid JSON: "
          /\ conn' = "open"]_vars

\* C14: a request line whose value makes the dispatcher raise is answered
\* with {"error": "internal error"}; the connection stays open, no exception
\* leaves the handler and the daemon is as it was.
C14_DispatchErrorAnswered ==
    [][(/\ nread' = nread + 1
        /\ ReadLine(Head(inbuf)) = "none"
        /\ JsonLoads(Head(inbuf)) = "none"
        /\ Head(inbuf).kind # "object") =>
          /\ outbuf' = Append(outbuf, [req |-> nread', resp |-> [error |-> "internal error"]])
          /\ conn' = "open"
          /\ raised' = "none"
          /\ UNCHANGED daemonVars]_vars

\* A value that is no object was answered with the internal error, and the
\* status request after it on the same connection was answered normally.
C14_Witness ==
    /\ Len(outbuf) = 2
    /\ outbuf[1] = [req |-> 1, resp |-> [error |-> "internal error"]]
    /\ outbuf[2].req = 2
    /\ ret.op = "status" /\ outbuf[2].resp = ret.resp
    /\ conn = "open" /\ raised = "none" /\ lifecycle = "running"

\* C15: the delay run() waits before its n-th reconnect attempt is
\* min(5 * 2^(n-1), 300), and the delay is never below 5 nor above 300.
C15_Backoff ==
    /\ mailpc # "created" => (5 <= delay /\ delay <= 300)
    /\ mailpc = "sleeping" => delay = Min(5 * 2^(nsleep - 1), 300)

\* run() sleeps for the eighth time, at the cap.
C15_Witness ==
    /\ mailpc = "sleeping"
    /\ nsleep = 8
    /\ delay = 300

\* C16 as stated: when a connection that was established fails, the delay
\* waited before the next attempt is the initial 5 seconds.
C16_Original ==
    (mailpc = "sleeping" /\ established) => delay = 5

Fetched(c) == {u \in c.found : c.out[u] \in {"ok", "callback_raises"}}

\* C18 as stated: a fetch cycle never lowers the cursor, and after a cycle
\* that fetched messages the cursor is the largest UID fetched.
C18_Original ==
    cycle # <<>> =>
        /\ cycle.after >= cycle.before
        /\ Fetched(cycle) # {} => cycle.after = MaxOf(Fetched(cycle))

\* C19 as stated: a fetch cycle invokes the callback once for every message
\* it found above the cursor, and on one connection the callback is never
\* invoked twice for a message.
C19_Original ==
    /\ \A u \in 1 .. MaxUid : notified[u] <= 1
    /\ cycle # <<>> => Invoked(cycle.out) = cycle.found

\* C20: a message that carries an approval-response element is handed to
\* handle_response and leaves the daemon as it was, whatever its body: no task
\* is made of it.  (The steps that leave the pending table alone are those of
\* _on_message, and routed' tells what the message held.)
C20_ApprovalOnly ==
    [][(pending' = pending /\ routed' # <<>> /\ routed'.element) =>
          /\ UNCHANGED daemonVars
          /\ \E id \in Ids : \E result \in Results : HandleResponse(id, result)]_vars

\* A message with an approval-response element and a task object as its body
\* resolved the waiting call, and no task was ever made.
C20_Witness ==
    /\ routed # <<>> /\ routed.element /\ routed.body = "object"
    /\ Len(calls) = 1
    /\ calls[1].fut.st = "result" /\ calls[1].fut.result = "approved"
    /\ nsub = 0 /\ state = "idle" /\ ret.op = "init"

\* C21: a message without an approval-response element whose body is a JSON
\* object of type "task" is handed to _handle_task as a task request with
\* source "xmpp" whose reply_to is the one the body names and, when it names
\* none, the sender of the message.  (The steps that leave the approval
\* manager alone are those of _on_message.)
C21_Original ==
    [][(/\ UNCHANGED approvalVars
        /\ <<daemonVars, chatVars>>' # <<daemonVars, chatVars>>
        /\ routed' # <<>> /\ ~routed'.element /\ routed'.body = "object"
        /\ ret'.op = "xmpp" /\ ret'.req.type = "task")
          => /\ ret'.req.source = "xmpp"
             /\ ret'.req.reply_to = Get(routed', "reply_to", routed'.from)]_vars

\* C22: a message whose body is empty, no JSON, or JSON that is no object
\* makes no task, leaves phase, `current` and queue as they are, and no
\* exception leaves its handler.
C22_Original ==
    [][(routed' # <<>> /\ routed'.body \in {"empty", "text", "list", "bigint"})
          => /\ UNCHANGED <<state, current, queue, nsub>>
             /\ routed'.raised = "none"]_vars

\* C23: once disconnect() has set _stopping, no reconnect loop is scheduled
\* and no loop calls connect() (enters wait_connected), whether the loop was
\* scheduled, asleep or waiting when the flag was set.
C23_NoConnectAfterDisconnect ==
    [][chat_stopping =>
          /\ Len(reconnects') = Len(reconnects)
          /\ \A i \in DOMAIN reconnects :
                reconnects'[i].pc = "waiting" => reconnects[i].pc = "waiting"]_vars

\* disconnect() came while the first loop slept after a failed attempt and
\* the second, scheduled by the loss of that attempt's transport, had not
\* begun: both ended without another connect().
C23_Witness ==
    /\ chat_stopping
    /\ Len(reconnects) = 2
    /\ reconnects[1].pc = "done" /\ reconnects[1].why = "stopping"
    /\ reconnects[1].nsleep = 2
    /\ reconnects[2].pc = "done" /\ reconnects[2].why = "stopping"
    /\ reconnects[2].nsleep = 0
    /\ ~connected

\* C24: the n-th sleep of a reconnect loop lasts min(5 * 2^(n-1), 300)
\* seconds, and a loop ends only when _stopping is set or when its
\* wait_connected finds the session established.
C24_ReconnectBackoff ==
    /\ [](\A i \in DOMAIN reconnects :
             reconnects[i].pc \in {"sleeping", "waiting"} =>
                reconnects[i].current_delay = Min(5 * 2^(reconnects[i].nsleep - 1), 300))
    /\ [][\A i \in DOMAIN reconnects :
             (reconnects[i].pc # "done" /\ reconnects'[i].pc = "done") =>
                \/ chat_stopping
                \/ /\ reconnects[i].pc = "waiting" /\ connected
                   /\ reconnects'[i].why = "connected"]_vars

\* A loop slept eight times, the last two for 300 seconds, and ended when
\* its eighth attempt established the session.
C24_Witness ==
    /\ ~chat_stopping
    /\ Len(reconnects) = 1
    /\ reconnects[1].pc = "done" /\ reconnects[1].why = "connected"
    /\ reconnects[1].nsleep = 8 /\ reconnects[1].current_delay = 300
    /\ connected

\* A step that ends loop i and is not the return of its sleep.
EndsUntimed(i) ==
    /\ ReconnectNext
    /\ reconnects'[i].pc = "done"
    /\ ~ReconnectWake(i)

\* C27 (the chat supervisor's part): a reconnect loop that sleeps when
\* disconnect() is called can end by a step other than the return of its
\* sleep.
C27_Original ==
    \A i \in DOMAIN reconnects :
       (chat_stopping /\ reconnects[i].pc = "sleeping") => ENABLED EndsUntimed(i)

\* C25: an evaluation task is only ever made for a mail whose dkim or spf
\* verdict is "pass" (so only such a mail gets to the triage call), and every
\* task submitted is submitted by the evaluation of such a mail.
C25_UntrustedNeverTriaged ==
    /\ [](eval_task # <<>> =>
             (eval_task.auth.dkim = "pass" \/ eval_task.auth.spf = "pass"))
    /\ [][nsub' # nsub =>
             /\ eval_task # <<>> /\ eval_task.pc = "triage"
             /\ eval_task.auth.dkim = "pass" \/ eval_task.auth.spf = "pass"]_vars

\* A mail whose dkim failed and whose spf passed was triaged at time 200, in
\* the second evaluation of the run, and its action was queued.
C25_Witness ==
    /\ eval_task # <<>> /\ eval_task.pc = "done"
    /\ eval_task.auth = [dkim |-> "fail", spf |-> "pass"]
    /\ last_eval = 200
    /\ nsub = 2 /\ ret.op = "clauding"
    /\ state = "working" /\ Len(queue) = 1

\* C28: a fetch cycle in which the fetch or the callback failed for some
\* message still handles every message it found (the callback is invoked for
\* each one whose fetch gave a notification), and the watcher goes back to
\* its idle on the same connection without a reconnect sleep.
C28_FailureKeepsCycle ==
    [][(/\ mailpc = "idling" /\ cycle' # <<>>
        /\ cycle' # cycle \/ notified' # notified)
          => /\ DOMAIN cycle'.out = cycle'.found
             /\ \A u \in cycle'.found :
                   cycle'.out[u] \in {"ok", "callback_raises"} =>
                      notified'[u] = Min(notified[u] + 1, 2)
             /\ mailpc' = "idle_start"
             /\ nsleep' = nsleep /\ established' = established]_vars

\* The fetch of message 1 raised and the callback raised for message 2;
\* message 3 was notified all the same and the watcher is back at its idle.
C28_Witness ==
    /\ cycle # <<>>
    /\ cycle.found = {1, 2, 3}
    /\ cycle.out[1] = "fetch_raises" /\ cycle.out[2] = "callback_raises"
    /\ cycle.out[3] = "ok"
    /\ notified = <<0, 1, 1>>
    /\ mailpc = "idle_start" /\ nsleep = 0 /\ established

\* C29: the callback is invoked for the messages of one fetch cycle in
\* ascending UID order, whatever the order of the server's listing.
C29_Original ==
    cycle # <<>> =>
       \A i, j \in DOMAIN cycle.order : i < j => cycle.order[i] < cycle.order[j]

\* The prefix of the status text of a phase that carries a detail.
PhasePrefix(s) == WithDetail(IF s = "working" THEN WorkingText ELSE WaitingText, <<>>)

\* The status text of a finished presence update starts with the prefix of
\* its phase.
StartsWithPrefix ==
    /\ Len(value.status) >= Len(PhasePrefix(args.state))
    /\ SubSeq(value.status, 1, Len(PhasePrefix(args.state))) = PhasePrefix(args.state)

\* C26 as the specification words it: for phase working or blocked and any
\* detail text, the status text is at most 140 characters long, starts with
\* the phase prefix, and when the detail had to be cut it ends with exactly
\* one ellipsis character.
C26_Original ==
    (value # <<>> /\ args.state \in {"working", "blocked"})
      => LET status == value.status
             room == MAX_STATUS_LENGTH - Len(PhasePrefix(args.state))
         IN  /\ Len(status) <= MAX_STATUS_LENGTH
             /\ StartsWithPrefix
             /\ Len(args.detail) > room
                  => /\ status[Len(status)] = Ellipsis
                     /\ status[Len(status) - 1] # Ellipsis

\* C26: for phase working or blocked and a detail that is not empty, the
\* status text is at most 140 characters long and is the phase prefix
\* followed by the detail when the detail fits in the 131 characters left,
\* and otherwise by the first 130 characters of the detail and one appended
\* ellipsis; with an empty detail the status text is the bare phase word.
C26_StatusText ==
    (value # <<>> /\ args.state \in {"working", "blocked"})
      => LET status == value.status
             prefix == PhasePrefix(args.state)
             room == MAX_STATUS_LENGTH - Len(prefix)
         IN  /\ Len(status) <= MAX_STATUS_LENGTH
             /\ args.detail = <<>>
                  => status = SubSeq(prefix, 1, Len(prefix) - 2)
             /\ (args.detail # <<>> /\ Len(args.detail) <= room)
                  => status = prefix \o args.detail
             /\ Len(args.detail) > room
                  => status = prefix \o SubSeq(args.detail, 1, room - 1) \o <<Ellipsis>>

\* A blocked phase whose detail of 135 characters was cut: the status text
\* is 140 characters long and ends with the ellipsis after a character of
\* the detail.
C26_Witness ==
    /\ value # <<>>
    /\ args.state = "blocked"
    /\ Len(args.detail) = 135
    /\ Len(value.status) = 140
    /\ value.status[140] = Ellipsis
    /\ value.status[139] = "x"
    /\ StartsWithPrefix

\* The parts of all the headers, in the order a scan meets them.
RECURSIVE AllParts(_)
AllParts(headers) ==
    IF headers = <<>> THEN <<>> ELSE Head(headers) \o AllParts(Tail(headers))

\* The first word, lower-cased, of the first part for field f a scan of
\* all the headers meets; empty when there is none.
FirstToken(headers, f) ==
    LET parts == FieldParts(AllParts(headers), f)
    IN  IF parts = <<>> THEN "" ELSE FirstWord(parts[1].raw)

\* C30 as the specification words it: for each of dkim, spf and dmarc the
\* parsed verdict is the lower-cased value, up to the first whitespace, of
\* the first token for that field met when scanning all the
\* Authentication-Results headers in order; no later token for the field,
\* in the same header or in a later one, replaces it.
C30_Original ==
    (value # <<>> /\ value.raised = "none")
      => \A f \in {"dkim", "spf", "dmarc"} : value[f] = FirstToken(args.headers, f)

\* C31: while the chat client is set, every step that changes the phase or
\* `current` (accept, dequeue, completion) leaves as the last presence
\* published the one of the new phase, with the new current task's project
\* as detail.
C31_TransitionPublishes ==
    [][(xmpp /\ (state' # state \/ current' # current))
         => presence' = <<StateToPresence(state',
                             IF current' # <<>> THEN current'[1].project ELSE "")>>]_vars

\* A worker ended and dequeued the second task, of another project than the
\* first; the presence published last names the second project.
C31_Witness ==
    /\ xmpp
    /\ ret.op = "finish"
    /\ started = <<1, 2>>
    /\ state = "working"
    /\ current # <<>> /\ current[1].id = 2 /\ current[1].project = "p2"
    /\ presence = <<[show |-> "dnd", status |-> "Working", detail |-> "p2"]>>

\* The step ends worker ret'.w by one of the ways its try block completes,
\* the task has a reply address and the chat client is set.
CompletesWithReply ==
    /\ ret'.op = "finish" /\ workers' # workers
    /\ ret'.outcome # "cancelled"
    /\ workers[ret'.w].task.reply_to # ""
    /\ xmpp

\* The completion message of the task of worker w.
Reply(w) == <<workers[w].task.reply_to, workers[w].task.id>>

TimesStarted(id) == Cardinality({i \in DOMAIN started' : started'[i] = id})

\* C33: a headless execution that runs into the overall timeout ends its
\* worker without an exception and with the timeout summary; the task is
\* neither queued nor made `current` again, and the worker starts the head
\* of the queue if there is one and goes Idle otherwise.
C33_TimeoutAbandons ==
    [][(ret'.op = "finish" /\ workers' # workers /\ ret'.outcome = "timeout")
         => LET w == ret'.w
                task == workers[w].task
            IN  /\ SelectMode(task) = "headless"
                /\ workers'[w].pc = "done"
                /\ ret'.summary = "Session timed out"
                /\ TimesStarted(task.id) = 1
                /\ \A i \in DOMAIN queue' : queue'[i].id # task.id
                /\ IF queue # <<>>
                   THEN /\ state' = "working"
                        /\ current' = <<Head(queue)>>
                        /\ queue' = Tail(queue)
                        /\ workers'[Len(workers')] = [task |-> Head(queue), pc |-> "created"]
                   ELSE /\ state' = "idle"
                        /\ current' = <<>>
                        /\ workers' = [workers EXCEPT ![w].pc = "done"]]_vars

\* The only task, a headless one, ran into the timeout: its worker is done,
\* the phase is Idle and the task was started once.
C33_Witness ==
    /\ ret.op = "finish" /\ ret.outcome = "timeout"
    /\ ret.summary = "Session timed out"
    /\ workers = <<[task |-> [id |-> 1, project |-> "p2", mode |-> "headless",
                              source |-> "socket", reply_to |-> ""],
                    pc |-> "done"]>>
    /\ state = "idle" /\ current = <<>> /\ queue = <<>>
    /\ started = <<1>>

\* The request is of a type the dispatcher does not know.
UnknownType(request) == request.type \notin {"status", "task"}

\* The request is a task that names no project.
NoProject(request) == request.type = "task" /\ Get(request, "project", "") = ""

\* C34: a request line holding an object whose type is neither status nor
\* task, or a task with no project, is answered with an error object
\* ("unknown request type", "missing 'project' field"); the phase, `current`
\* and the queue stay as they are, no task is made, and the connection stays
\* open with no exception raised.
C34_ErrorsReported ==
    [][(nread' = nread + 1 /\ Head(inbuf).kind = "object"
          /\ (UnknownType(Head(inbuf).request) \/ NoProject(Head(inbuf).request)))
         => /\ outbuf' = Append(outbuf,
                 [req |-> nread',
                  resp |-> [error |-> IF UnknownType(Head(inbuf).request)
                                      THEN "unknown request type"
                                      ELSE "missing 'project' field"]])
            /\ UNCHANGED <<state, current, queue, workers, nsub>>
            /\ conn' = "open" /\ conn = "open"
            /\ raised' = "none"]_vars

\* A request of an unknown type and a task without a project were each
\* answered with their error, and the task that followed them on the same
\* connection was accepted.
C34_Witness ==
    /\ Len(outbuf) = 3
    /\ outbuf[1] = [req |-> 1, resp |-> [error |-> "unknown request type"]]
    /\ outbuf[2] = [req |-> 2, resp |-> [error |-> "missing 'project' field"]]
    /\ outbuf[3] = [req |-> 3, resp |-> [status |-> "accepted", project |-> "p1"]]
    /\ conn = "open"
    /\ state = "working" /\ nsub = 1

\* The ids of the tasks acknowledged as accepted or queued so far.
Acknowledged == 1 .. nsub

\* The workers made for task id.
WorkersOf(id) == {w \in DOMAIN workers : workers[w].task.id = id}

\* C35: in a run without shutdown whose executions all terminate, every
\* acknowledged task is either waiting in the queue, once, or has become
\* current, once, with one worker made for it; and again and again every
\* task acknowledged so far has been executed to its end.
C35_ExecutedOnce ==
    /\ [](\A id \in Acknowledged :
            LET queued == {i \in DOMAIN queue : queue[i].id = id}
                begun == {i \in DOMAIN started : started[i] = id}
            IN  /\ Cardinality(queued) + Cardinality(begun) = 1
                /\ Cardinality(WorkersOf(id)) = Cardinality(begun))
    /\ [][\A w \in DOMAIN workers :
            /\ workers[w].pc = "running" => workers'[w].pc \in {"running", "done"}
            /\ workers[w].pc = "done" => workers'[w].pc = "done"]_vars
    /\ []<>(\A id \in Acknowledged : \E w \in WorkersOf(id) : workers[w].pc = "done")

\* Three tasks were acknowledged, one accepted and two queued behind it;
\* each was started once, in turn, and each has ended.
C35_Witness ==
    /\ nsub = 3
    /\ started = <<1, 2, 3>>
    /\ Len(workers) = 3
    /\ \A w \in 1 .. 3 : workers[w].task.id = w /\ workers[w].pc = "done"
    /\ queue = <<>> /\ state = "idle"

\* C37 as the specification words it: a request() whose send raises leaves
\* the pending table as it was before the call.
C37_Original ==
    [][(Len(calls') = Len(calls) + 1 /\ calls'[Len(calls')].pc = "raised")
         => pending' = pending]_vars

\* C36 as the specification words it, in its second half: the worker that
\* the shutdown cancels does not make the next queued task begin; its end
\* neither makes a task `current` nor creates a worker.
C36_Original ==
    [][(ret'.op = "finish" /\ workers' # workers /\ ret'.outcome = "cancelled")
         => /\ started' = started
            /\ Len(workers') = Len(workers)
            /\ ActiveWorkers' = {}]_vars

\* The reconnect loops that were scheduled and have not returned.
ActiveLoops == {i \in DOMAIN reconnects : reconnects[i].pc # "done"}

\* C38 as the specification words it: at most one reconnect loop is active
\* at any time, so a disconnect event that arrives while a loop is running
\* starts no second one.
C38_Original == Cardinality(ActiveLoops) <= 1

\* C39 as the specification words it: whenever the chat session is
\* established, the presence published last is the one of the current phase:
\* busy with the current project while Working, available while Idle.
C39_Original ==
    (xmpp /\ connected)
      => /\ presence # <<>>
         /\ IF state = "working"
            THEN presence[1] = StateToPresence("working", CurrentProject)
            ELSE presence[1].show \in {"chat", ""}

\* C40: every message that arrives in the mailbox while the supervisor is
\* connected is eventually notified without a further message having to
\* arrive, also one that arrives between the UID search of a fetch cycle and
\* the start of the next idle.
C40_Original ==
    \A u \in 1 .. MaxUid :
        (u \in mbox \ announced /\ mailpc \in {"idle_start", "idling", "fetching"})
            ~> (notified[u] >= 1)

====
